---- MODULE Spec2Model ----
\* Verification model of PiQL: the tick-driven QueryEngine (crates/piql),
\* the query pipeline it drives (parse -> transform -> eval) and the
\* server-side shared catalog (crates/piql-server).
EXTENDS Integers, Sequences, FiniteSets, TLC

\* ---------------------------------------------------------------- bounds
MaxOps == 5
MaxTick == 2
MaxWrites == 2

\* ------------------------------------------------------------ data model
\* A DataFrame is a schema (set of column names) plus an ordered list of rows.
Row(t, x) == [tick |-> t, v |-> x]
Frame(cols, rows) == [cols |-> cols, rows |-> rows]
FullCols == {"tick", "v"}
EmptyFrame == Frame(FullCols, <<>>)

\* Option<LazyFrame>
NoneLF == [some |-> FALSE, df |-> EmptyFrame]
SomeLF(f) == [some |-> TRUE, df |-> f]

\* Option<i64> for ctx.tick: None is NoTick
NoTick == 0 - 1

\* Option<String> for tick-column configuration: None is NoCol
NoCol == "none"
TickCol == "tick"

\* catalog names, and identifiers a query may mention
BaseNames == {"e"}
TableNames == {"e"}
ViewNames == {"v1", "v2"}
Names == TableNames \cup ViewNames
SubNames == {"s1", "s2"}

\* batches handed to append_tick
Batches == {Frame(FullCols, <<Row(1, 1)>>), Frame(FullCols, <<Row(2, 2)>>)}
\* frames handed to add_base_df / update_df; the second one has no column v
NoVFrame == Frame({"tick"}, <<Row(1, 0)>>)
PlainFrames == {Frame(FullCols, <<Row(1, 2), Row(2, 1)>>), NoVFrame}

\* DataFrameEntry / absent entry of ctx.dataframes
NoEntry == [present |-> FALSE, df |-> EmptyFrame, time_series |-> NoCol]
DataFrameEntry(f, ts) == [present |-> TRUE, df |-> f, time_series |-> ts]

\* BaseTableEntry of ctx.base_tables / absent entry
NoBase == [present |-> FALSE, all |-> NoneLF, now |-> NoneLF, config |-> NoCol]
BaseTableEntry(a, n, cfg) == [present |-> TRUE, all |-> a, now |-> n, config |-> cfg]

\* BaseTableState of QueryEngine.base_tables / absent entry
NoState == [present |-> FALSE, all |-> NoneLF, now |-> NoneLF]
BaseTableState(a, n) == [present |-> TRUE, all |-> a, now |-> n]

\* ------------------------------------------------------------ query text
\* A query is a method chain: a root identifier and a list of method calls.
\* pred is the surface argument of filter: "gt" is `$v > 1`, "@counted" and
\* "@nope" are directives; n is the integer argument of at/since.
Op(m, pred, n) == [m |-> m, pred |-> pred, n |-> n]
Q(root, ops) == [root |-> root, ops |-> ops]
NoQuery == Q("", <<>>)

QBare(n) == Q(n, <<>>)
QAll(n) == Q(n, <<Op("all", "", 0)>>)
QAt(n, k) == Q(n, <<Op("at", "", k)>>)
QFilter(n) == Q(n, <<Op("filter", "gt", 0)>>)
QCounted(n) == Q(n, <<Op("filter", "@counted", 0)>>)
QNope(n) == Q(n, <<Op("filter", "@nope", 0)>>)
QCol == Q("pl", <<Op("col", "", 0)>>)
\* X.join(Y, on="tick"): pred is the identifier of the other table
QJoin(x, y) == Q(x, <<Op("join", y, 0)>>)
QJoinAt(x, y, k) == Q(x, <<Op("join", y, 0), Op("at", "", k)>>)
QAtJoin(x, y, k) == Q(x, <<Op("at", "", k), Op("join", y, 0)>>)
\* X.join(Y, on="tick").m(..) and X.join(Y, on="tick").filter($v > 1).m(..)
\* for a scope method m: at(k), since(k), window(-k, 0), all()
QJoinScope(x, y, m, k) == Q(x, <<Op("join", y, 0), Op(m, "", k)>>)
QJoinFilterScope(x, y, m, k) ==
    Q(x, <<Op("join", y, 0), Op("filter", "gt", 0), Op(m, "", k)>>)

\* ------------------------------------------------------------ transform
\* SugarRegistry::expand_directive: Some(handler(args)) iff registered.
DirectiveOf(pred) == IF pred = "@counted" THEN "counted"
                     ELSE IF pred = "@nope" THEN "nope" ELSE ""

\* transform_expr on one argument: a registered directive is replaced by what
\* its handler returns (here the predicate `pl.col("v") > 1`), an unknown one
\* by an Invalid node, anything else passes through.
transform_arg(pred, sugar) ==
    IF DirectiveOf(pred) = "" THEN pred
    ELSE IF DirectiveOf(pred) \in sugar THEN "gt" ELSE "invalid"

transform_with_sugar(q, sugar) ==
    Q(q.root, [i \in 1..Len(q.ops) |->
                 Op(q.ops[i].m, transform_arg(q.ops[i].pred, sugar), q.ops[i].n)])

\* number of directive-handler invocations made by one transform of q
RECURSIVE HandlerCalls(_, _, _)
HandlerCalls(ops, i, sugar) ==
    IF i > Len(ops) THEN 0
    ELSE (IF DirectiveOf(ops[i].pred) # "" /\ DirectiveOf(ops[i].pred) \in sugar
          THEN 1 ELSE 0) + HandlerCalls(ops, i + 1, sugar)

\* ------------------------------------------------------------ evaluator
Table(n) == [k |-> "Table", name |-> n]
DerivedFrom(n) == [k |-> "DerivedFrom", name |-> n]
Ambiguous == [k |-> "Ambiguous", name |-> ""]
Unknown == [k |-> "Unknown", name |-> ""]

derived_AmbiguousToUnknown(lineage) ==
    IF lineage.k \in {"Table", "DerivedFrom"} THEN DerivedFrom(lineage.name)
    ELSE Unknown

derived(lineage) ==
    IF lineage.k \in {"Table", "DerivedFrom"} THEN DerivedFrom(lineage.name)
    ELSE lineage

\* Option<&str>: "" is None
source_name(lineage) ==
    IF lineage.k \in {"Table", "DerivedFrom"} THEN lineage.name ELSE ""

\* Value: a lazy DataFrame (bad = its collect() will fail), an Expr, the pl
\* namespace, or an evaluation error
ValDF(f, lineage, bad) == [kind |-> "df", df |-> f, lineage |-> lineage, bad |-> bad]
ValExpr == [kind |-> "expr", df |-> EmptyFrame, lineage |-> Unknown, bad |-> FALSE]
ValPl == [kind |-> "pl", df |-> EmptyFrame, lineage |-> Unknown, bad |-> FALSE]
ValErr == [kind |-> "err", df |-> EmptyFrame, lineage |-> Unknown, bad |-> FALSE]

get_base_now(ctx, name) ==
    IF name \in Names /\ ctx.base_tables[name].present
    THEN ctx.base_tables[name].now ELSE NoneLF

get_base_all(ctx, name) ==
    IF name \in Names /\ ctx.base_tables[name].present
    THEN ctx.base_tables[name].all ELSE NoneLF

eval_ident_CatalogFirst(name, ctx) ==
    IF name = "pl" THEN ValPl
    ELSE IF name \in Names /\ ctx.dataframes[name].present
         THEN ValDF(ctx.dataframes[name].df, Table(name), FALSE)
    ELSE IF get_base_now(ctx, name).some
         THEN ValDF(get_base_now(ctx, name).df, Table(name), FALSE)
    ELSE ValErr

eval_ident(name, ctx) ==
    IF name = "pl" THEN ValPl
    ELSE IF get_base_now(ctx, name).some
         THEN ValDF(get_base_now(ctx, name).df, Table(name), FALSE)
    ELSE IF name \in Names /\ ctx.dataframes[name].present
         THEN ValDF(ctx.dataframes[name].df, Table(name), FALSE)
    ELSE ValErr

\* resolve_scope_tick_column: NoCol stands for the Err returns
resolve_scope_tick_column_NoGuard(lineage, ctx) ==
    IF source_name(lineage) \in Names
       /\ ctx.base_tables[source_name(lineage)].present
    THEN ctx.base_tables[source_name(lineage)].config
    ELSE IF source_name(lineage) \in Names
            /\ ctx.dataframes[source_name(lineage)].present
            /\ ctx.dataframes[source_name(lineage)].time_series # NoCol
         THEN ctx.dataframes[source_name(lineage)].time_series
    ELSE ctx.default_tick_column

resolve_scope_tick_column(lineage, ctx) ==
    IF lineage.k = "Ambiguous" THEN NoCol
    ELSE IF source_name(lineage) \in Names
            /\ ctx.base_tables[source_name(lineage)].present
         THEN ctx.base_tables[source_name(lineage)].config
    ELSE IF source_name(lineage) \in Names
            /\ ctx.dataframes[source_name(lineage)].present
            /\ ctx.dataframes[source_name(lineage)].time_series # NoCol
         THEN ctx.dataframes[source_name(lineage)].time_series
    ELSE ctx.default_tick_column

scope_target_df(f, lineage, ctx, base_is_direct_ident) ==
    IF base_is_direct_ident /\ get_base_all(ctx, source_name(lineage)).some
    THEN get_base_all(ctx, source_name(lineage)).df
    ELSE f

\* the rows of f whose tick column equals n
AtFilter(f, n) == Frame(f.cols, SelectSeq(f.rows, LAMBDA r : r.tick = n))

\* the rows of f whose tick column is >= n, or lies in lo..hi
SinceFilter(f, n) == Frame(f.cols, SelectSeq(f.rows, LAMBDA r : r.tick >= n))
WindowFilter(f, lo, hi) ==
    Frame(f.cols, SelectSeq(f.rows, LAMBDA r : r.tick >= lo /\ r.tick <= hi))

\* df.join(other, on="tick") with how = "inner": the rows of the left frame
\* that have a partner in the right frame (tick values are unique within a
\* frame here); the row model carries the left frame's value only
join_inner(left, right) ==
    Frame(left.cols \cup right.cols,
          SelectSeq(left.rows,
                    LAMBDA a : \E i \in 1..Len(right.rows) : right.rows[i].tick = a.tick))

\* the message of the error a scope method returns, "" when it returns Ok
scope_error(lineage, ctx) ==
    IF lineage.k = "Ambiguous" THEN "ambiguous lineage"
    ELSE IF resolve_scope_tick_column(lineage, ctx) = NoCol
         THEN "requires tick column configuration"
    ELSE ""

eval_df_method(val, op, ctx, base_is_direct_ident) ==
    CASE op.m = "filter" ->
           IF op.pred = "invalid" THEN ValErr
           ELSE ValDF(Frame(val.df.cols, SelectSeq(val.df.rows, LAMBDA r : r.v > 1)),
                      derived(val.lineage),
                      val.bad \/ ~("v" \in val.df.cols))
      [] op.m = "all" ->
           ValDF(scope_target_df(val.df, val.lineage, ctx, base_is_direct_ident),
                 derived(val.lineage), val.bad)
      [] op.m = "at" ->
           IF resolve_scope_tick_column(val.lineage, ctx) = NoCol THEN ValErr
           ELSE ValDF(AtFilter(scope_target_df(val.df, val.lineage, ctx,
                                               base_is_direct_ident), op.n),
                      derived(val.lineage), val.bad)
      [] op.m = "since" ->
           IF resolve_scope_tick_column(val.lineage, ctx) = NoCol THEN ValErr
           ELSE ValDF(SinceFilter(scope_target_df(val.df, val.lineage, ctx,
                                                  base_is_direct_ident), op.n),
                      derived(val.lineage), val.bad)
      [] op.m = "window" ->
           IF ctx.tick = NoTick THEN ValErr
           ELSE IF resolve_scope_tick_column(val.lineage, ctx) = NoCol THEN ValErr
           ELSE ValDF(WindowFilter(scope_target_df(val.df, val.lineage, ctx,
                                                   base_is_direct_ident),
                                   ctx.tick - op.n, ctx.tick),
                      derived(val.lineage), val.bad)
      [] op.m = "join" ->
           IF eval_ident(op.pred, ctx).kind # "df" THEN ValErr
           ELSE ValDF(join_inner(val.df, eval_ident(op.pred, ctx).df),
                      Ambiguous,
                      val.bad \/ eval_ident(op.pred, ctx).bad
                          \/ ~(TickCol \in val.df.cols)
                          \/ ~(TickCol \in eval_ident(op.pred, ctx).df.cols))
      [] OTHER -> ValErr

eval_pl_function(op) == IF op.m = "col" THEN ValExpr ELSE ValErr

eval_method_call(val, op, ctx, base_is_direct_ident) ==
    CASE val.kind = "err" -> ValErr
      [] val.kind = "pl" -> eval_pl_function(op)
      [] val.kind = "df" -> eval_df_method(val, op, ctx, base_is_direct_ident)
      [] OTHER -> ValErr

\* eval of the chain root.ops[1..i]
RECURSIVE eval(_, _, _)
eval(core, i, ctx) ==
    IF i = 0 THEN eval_ident(core.root, ctx)
    ELSE eval_method_call(eval(core, i - 1, ctx), core.ops[i], ctx, i = 1)

\* piql::run: parse, transform (directive handlers run here), eval
run(q, ctx) == eval(transform_with_sugar(q, ctx.sugar), Len(q.ops), ctx)

\* LazyFrame::collect on the value of a query
CollectOk(val) == val.kind = "df" /\ ~val.bad

\* ===================================================== QueryEngine state
VARIABLES
    dataframes,            \* ctx.dataframes: name -> DataFrameEntry
    ctx_base_tables,       \* ctx.base_tables: name -> BaseTableEntry
    base_tables,           \* QueryEngine.base_tables: name -> BaseTableState
    tick,                  \* ctx.tick
    default_tick_column,   \* ctx.default_tick_column
    sugar,                 \* ctx.sugar: names of the registered directives
    materialized,          \* IndexMap name -> query, as a list in map order
    subscriptions,         \* HashMap name -> query
    tickpc,                \* position of the running on_tick call, or "idle"
    phase,                 \* index into TickPhases of the running on_tick
    viewPos,               \* loop index of on_tick's loop over materialized
    pendingSubs,           \* subscriptions on_tick's second loop has not visited
    results,               \* on_tick's local `results` map
    lastReturn,            \* what the last on_tick call returned
    lastQuery,             \* the last one-off query and what it saw
    lastOp,                \* the last engine operation that completed
    preTick,               \* history: ctx.dataframes when on_tick was entered
    preTickNo,             \* history: ctx.tick when on_tick was entered
    recomputed,            \* history: views recomputed so far by this on_tick
    computed,              \* history: the value each view got in this on_tick
    subExp,                \* history: handler invocations made for a subscription
    subEvals,              \* history: on_tick evaluations of a subscription
    batches,               \* history: batches appended to a base table
    appendFailed,          \* history: an append_tick on the table has failed
    nops                   \* number of engine calls made

engineVars == <<dataframes, ctx_base_tables, base_tables, tick, default_tick_column,
                sugar, materialized, subscriptions, tickpc, phase, viewPos,
                pendingSubs, results, lastReturn, lastQuery, lastOp, preTick, preTickNo,
                recomputed, computed, subExp, subEvals, batches, appendFailed, nops>>

\* the EvalContext the engine hands to run()
Ctx == [dataframes |-> dataframes, base_tables |-> ctx_base_tables, tick |-> tick,
        default_tick_column |-> default_tick_column, sugar |-> sugar]

NoResults == [s \in {} |-> EmptyFrame]
NoComputed == [n \in Names |-> NoneLF]
OpRec(op, name) == [op |-> op, name |-> name]
NoObs == [q |-> NoQuery, val |-> ValErr, duringTick |-> FALSE, half |-> FALSE]
NoReturn == [status |-> "none", results |-> NoResults, dropped |-> 0]

EngineInit ==
    /\ dataframes = [n \in Names |-> NoEntry]
    /\ ctx_base_tables = [n \in Names |-> NoBase]
    /\ base_tables = [n \in Names |-> NoState]
    /\ tick = NoTick
    /\ default_tick_column = NoCol
    /\ sugar = {}
    /\ materialized = <<>>
    /\ subscriptions = [s \in SubNames |-> NoQuery]
    /\ tickpc = "idle"
    /\ phase = 0
    /\ viewPos = 0
    /\ pendingSubs = {}
    /\ results = NoResults
    /\ lastReturn = NoReturn
    /\ lastQuery = NoObs
    /\ lastOp = OpRec("new", "")
    /\ preTick = [n \in Names |-> NoEntry]
    /\ preTickNo = NoTick
    /\ recomputed = <<>>
    /\ computed = NoComputed
    /\ subExp = [s \in SubNames |-> 0]
    /\ subEvals = [s \in SubNames |-> 0]
    /\ batches = [n \in BaseNames |-> <<>>]
    /\ appendFailed = [n \in BaseNames |-> FALSE]
    /\ nops = 0

\* &mut self / Mutex<QueryEngine>: a call can start only when no other call
\* is inside the engine
EngineFree == tickpc = "idle"
CanCall == EngineFree /\ nops < MaxOps

tickVars == <<tickpc, phase, viewPos, pendingSubs, results, lastReturn,
              preTick, preTickNo, recomputed, computed>>
subHist == <<subExp, subEvals>>
baseHist == <<batches, appendFailed>>

\* ------------------------------------------------------- registration ops
register_base(name) ==
    /\ CanCall
    /\ ctx_base_tables' = [ctx_base_tables EXCEPT ![name] =
                               BaseTableEntry(NoneLF, NoneLF, TickCol)]
    /\ base_tables' = [base_tables EXCEPT ![name] = BaseTableState(NoneLF, NoneLF)]
    /\ batches' = [batches EXCEPT ![name] = <<>>]
    /\ appendFailed' = [appendFailed EXCEPT ![name] = FALSE]
    /\ lastOp' = OpRec("register_base", name)
    /\ nops' = nops + 1
    /\ UNCHANGED <<dataframes, tick, default_tick_column, sugar, materialized,
                   subscriptions, lastQuery, tickVars, subHist>>

\* polars concat with UnionArgs::default(): vertical, order-preserving
concat_NewFirst(existing, rows) == Frame(existing.cols, rows.rows \o existing.rows)

concat(existing, rows) == Frame(existing.cols, existing.rows \o rows.rows)

\* EvalContext::update_base_table_ptrs applied to (ctx.base_tables, ctx.dataframes)
update_base_table_ptrs(name, all, now) ==
    IF ctx_base_tables[name].present
    THEN /\ ctx_base_tables' = [ctx_base_tables EXCEPT ![name] =
                 BaseTableEntry(SomeLF(all), SomeLF(now), ctx_base_tables[name].config)]
         /\ dataframes' = [dataframes EXCEPT ![name] =
                 DataFrameEntry(all, ctx_base_tables[name].config)]
    ELSE UNCHANGED <<ctx_base_tables, dataframes>>

append_tick(name, rows, concat_fails) ==
    /\ CanCall
    /\ nops' = nops + 1
    /\ UNCHANGED <<tick, default_tick_column, sugar, materialized, subscriptions,
                   lastQuery, tickVars, subHist>>
    /\ IF ~base_tables[name].present
       THEN \* UnknownIdent
            /\ ~concat_fails
            /\ lastOp' = OpRec("append_tick_unknown", name)
            /\ UNCHANGED <<base_tables, ctx_base_tables, dataframes, batches, appendFailed>>
       ELSE IF concat_fails
       THEN \* state.all.take() has emptied the slot when concat's error returns
            /\ base_tables[name].all.some
            /\ base_tables' = [base_tables EXCEPT ![name].all = NoneLF]
            /\ appendFailed' = [appendFailed EXCEPT ![name] = TRUE]
            /\ lastOp' = OpRec("append_tick_err", name)
            /\ UNCHANGED <<ctx_base_tables, dataframes, batches>>
       ELSE LET all == IF base_tables[name].all.some
                       THEN concat(base_tables[name].all.df, rows) ELSE rows
            IN /\ base_tables' = [base_tables EXCEPT ![name] =
                                      BaseTableState(SomeLF(all), SomeLF(rows))]
               /\ update_base_table_ptrs(name, all, rows)
               /\ batches' = [batches EXCEPT ![name] = Append(@, rows)]
               /\ lastOp' = OpRec("append_tick", name)
               /\ UNCHANGED appendFailed

add_base_df(name, df) ==
    /\ CanCall
    /\ dataframes' = [dataframes EXCEPT ![name] = DataFrameEntry(df, NoCol)]
    /\ lastOp' = OpRec("add_base_df", name)
    /\ nops' = nops + 1
    /\ UNCHANGED <<ctx_base_tables, base_tables, tick, default_tick_column, sugar,
                   materialized, subscriptions, lastQuery, tickVars, subHist, baseHist>>

update_df(name, df) ==
    /\ CanCall
    /\ dataframes' = IF dataframes[name].present
                     THEN [dataframes EXCEPT ![name].df = df]
                     ELSE dataframes
    /\ lastOp' = [op |-> "update_df", name |-> name, df |-> df]
    /\ nops' = nops + 1
    /\ UNCHANGED <<ctx_base_tables, base_tables, tick, default_tick_column, sugar,
                   materialized, subscriptions, lastQuery, tickVars, subHist, baseHist>>

register_directive(name) ==
    /\ CanCall
    /\ name \notin sugar
    /\ sugar' = sugar \cup {name}
    /\ lastOp' = OpRec("register_directive", name)
    /\ nops' = nops + 1
    /\ UNCHANGED <<dataframes, ctx_base_tables, base_tables, tick, default_tick_column,
                   materialized, subscriptions, lastQuery, tickVars, subHist, baseHist>>

set_tick(t) ==
    /\ CanCall
    /\ tick' = t
    /\ lastOp' = OpRec("set_tick", "")
    /\ nops' = nops + 1
    /\ UNCHANGED <<dataframes, ctx_base_tables, base_tables, default_tick_column, sugar,
                   materialized, subscriptions, lastQuery, tickVars, subHist, baseHist>>

set_default_tick_column(c) ==
    /\ CanCall
    /\ default_tick_column # c
    /\ default_tick_column' = c
    /\ lastOp' = OpRec("set_default_tick_column", "")
    /\ nops' = nops + 1
    /\ UNCHANGED <<dataframes, ctx_base_tables, base_tables, tick, sugar,
                   materialized, subscriptions, lastQuery, tickVars, subHist, baseHist>>

\* ------------------------------------------------- views and subscriptions
ViewQueries == {QBare("e"), QFilter("e"), QFilter("v1"), QCol}
SubQueries == {QBare("v1"), QFilter("v2"), QCounted("e"), QCol}
OneOffQueries == {QBare("e"), QAt("e", 1), QNope("e")}

ViewIndex(m, name) ==
    IF \E i \in 1..Len(m) : m[i].name = name
    THEN CHOOSE i \in 1..Len(m) : m[i].name = name ELSE 0

\* IndexMap::insert: a new key goes last, an existing key keeps its position
IndexMapInsert(m, name, query) ==
    IF ViewIndex(m, name) = 0 THEN Append(m, [name |-> name, query |-> query])
    ELSE [m EXCEPT ![ViewIndex(m, name)].query = query]

materialize(name, query) ==
    /\ CanCall
    /\ nops' = nops + 1
    /\ UNCHANGED <<ctx_base_tables, base_tables, tick, default_tick_column, sugar,
                   subscriptions, lastQuery, tickVars, subHist, baseHist>>
    /\ LET val == run(query, Ctx)
       IN IF val.kind = "err" \/ (val.kind = "df" /\ ~CollectOk(val))
          THEN /\ lastOp' = OpRec("materialize_err", name)
               /\ UNCHANGED <<dataframes, materialized>>
          ELSE /\ dataframes' = IF val.kind = "df"
                                THEN [dataframes EXCEPT ![name] =
                                          DataFrameEntry(val.df, NoCol)]
                                ELSE dataframes
               /\ materialized' = IndexMapInsert(materialized, name, query)
               /\ lastOp' = OpRec("materialize", name)

subscribe(name, query) ==
    /\ CanCall
    /\ subscriptions' = [subscriptions EXCEPT ![name] = query]
    /\ subExp' = [subExp EXCEPT ![name] = 0]
    /\ subEvals' = [subEvals EXCEPT ![name] = 0]
    /\ lastOp' = OpRec("subscribe", name)
    /\ nops' = nops + 1
    /\ UNCHANGED <<dataframes, ctx_base_tables, base_tables, tick, default_tick_column,
                   sugar, materialized, lastQuery, tickVars, baseHist>>

unsubscribe(name) ==
    /\ CanCall
    /\ subscriptions[name] # NoQuery
    /\ subscriptions' = [subscriptions EXCEPT ![name] = NoQuery]
    /\ subExp' = [subExp EXCEPT ![name] = 0]
    /\ subEvals' = [subEvals EXCEPT ![name] = 0]
    /\ lastOp' = OpRec("unsubscribe", name)
    /\ nops' = nops + 1
    /\ UNCHANGED <<dataframes, ctx_base_tables, base_tables, tick, default_tick_column,
                   sugar, materialized, lastQuery, tickVars, baseHist>>

\* ---------------------------------------------------------------- on_tick
\* the two loops of on_tick in the order the code runs them
TickPhases_SubsFirst == <<"subs", "views">>

TickPhases == <<"views", "subs">>

\* iteration order of `for (name, query) in &self.materialized`
ViewOrder_Reversed(m) == [i \in 1..Len(m) |-> m[Len(m) + 1 - i]]

ViewOrder(m) == m

\* what on_tick returns when a `?` fires
ErrReturn_Partial(res) ==
    [status |-> "err", results |-> res, dropped |-> Cardinality(DOMAIN res)]

ErrReturn(res) ==
    [status |-> "err", results |-> NoResults, dropped |-> Cardinality(DOMAIN res)]

OkReturn(res) == [status |-> "ok", results |-> res, dropped |-> 0]

TickIdle ==
    /\ tickpc' = "idle"
    /\ phase' = 0
    /\ viewPos' = 0
    /\ pendingSubs' = {}
    /\ results' = NoResults
    /\ preTick' = [n \in Names |-> NoEntry]
    /\ preTickNo' = NoTick
    /\ recomputed' = <<>>
    /\ computed' = NoComputed

on_tick_begin(t) ==
    /\ CanCall
    /\ nops' = nops + 1
    /\ tick' = t
    /\ phase' = 1
    /\ tickpc' = TickPhases[1]
    /\ viewPos' = 1
    /\ pendingSubs' = {s \in SubNames : subscriptions[s] # NoQuery}
    /\ results' = NoResults
    /\ preTick' = dataframes
    /\ preTickNo' = tick
    /\ recomputed' = <<>>
    /\ computed' = NoComputed
    /\ lastOp' = OpRec("on_tick", "")
    /\ UNCHANGED <<dataframes, ctx_base_tables, base_tables, default_tick_column, sugar,
                   materialized, subscriptions, lastReturn, lastQuery, subHist, baseHist>>

\* one iteration of the loop over the materialized views
on_tick_view ==
    /\ tickpc = "views"
    /\ viewPos <= Len(materialized)
    /\ LET view == ViewOrder(materialized)[viewPos]
           val == run(view.query, Ctx)
       IN IF val.kind = "err" \/ (val.kind = "df" /\ ~CollectOk(val))
          THEN /\ lastReturn' = ErrReturn(results)
               /\ lastOp' = OpRec("on_tick_err", view.name)
               /\ TickIdle
               /\ UNCHANGED dataframes
          ELSE /\ dataframes' = IF val.kind = "df"
                                THEN [dataframes EXCEPT ![view.name] =
                                          DataFrameEntry(val.df, NoCol)]
                                ELSE dataframes
               /\ recomputed' = Append(recomputed, view.name)
               /\ computed' = IF val.kind = "df"
                              THEN [computed EXCEPT ![view.name] = SomeLF(val.df)]
                              ELSE computed
               /\ viewPos' = viewPos + 1
               /\ UNCHANGED <<tickpc, phase, pendingSubs, results, lastReturn,
                              lastOp, preTick, preTickNo>>
    /\ UNCHANGED <<ctx_base_tables, base_tables, tick, default_tick_column, sugar,
                   materialized, subscriptions, lastQuery, subHist, baseHist, nops>>

\* one iteration of the loop over the subscriptions (HashMap order: any)
on_tick_sub ==
    /\ tickpc = "subs"
    /\ \E s \in pendingSubs :
         LET val == run(subscriptions[s], Ctx)
         IN /\ subEvals' = [subEvals EXCEPT ![s] = @ + 1]
            /\ subExp' = [subExp EXCEPT ![s] =
                              @ + HandlerCalls(subscriptions[s].ops, 1, sugar)]
            /\ IF val.kind = "err" \/ (val.kind = "df" /\ ~CollectOk(val))
               THEN /\ lastReturn' = ErrReturn(results)
                    /\ lastOp' = OpRec("on_tick_err", s)
                    /\ TickIdle
               ELSE /\ results' = IF val.kind = "df"
                                  THEN [x \in DOMAIN results \cup {s} |->
                                          IF x = s THEN val.df ELSE results[x]]
                                  ELSE results
                    /\ pendingSubs' = pendingSubs \ {s}
                    /\ UNCHANGED <<tickpc, phase, viewPos, lastReturn, lastOp, preTick, preTickNo,
                                   recomputed, computed>>
    /\ UNCHANGED <<dataframes, ctx_base_tables, base_tables, tick, default_tick_column,
                   sugar, materialized, subscriptions, lastQuery, baseHist, nops>>

\* a loop has run out: go on to the next loop, or to `Ok(results)`
on_tick_next ==
    /\ \/ tickpc = "views" /\ viewPos > Len(materialized)
       \/ tickpc = "subs" /\ pendingSubs = {}
    /\ IF phase < Len(TickPhases)
       THEN /\ phase' = phase + 1
            /\ tickpc' = TickPhases[phase + 1]
            /\ UNCHANGED <<viewPos, pendingSubs, results, lastReturn, lastOp, preTick, preTickNo,
                           recomputed, computed>>
       ELSE /\ lastReturn' = OkReturn(results)
            /\ lastOp' = OpRec("on_tick_ok", "")
            /\ TickIdle
    /\ UNCHANGED <<dataframes, ctx_base_tables, base_tables, tick, default_tick_column,
                   sugar, materialized, subscriptions, lastQuery, subHist, baseHist, nops>>

\* ------------------------------------------------------------------ query
\* a one-off query made through the engine mutex (QueryEngine::query)
QueryMayRun_NoLock == TRUE

QueryMayRun == EngineFree

query(q) ==
    /\ QueryMayRun
    /\ nops < MaxOps
    /\ nops' = nops + 1
    /\ lastQuery' = [q |-> q, val |-> run(q, Ctx), duringTick |-> tickpc # "idle",
                     half |-> /\ tickpc # "idle"
                              /\ Len(recomputed) > 0
                              /\ Len(recomputed) < Len(materialized)]
    /\ UNCHANGED <<dataframes, ctx_base_tables, base_tables, tick, default_tick_column,
                   sugar, materialized, subscriptions, lastOp, tickVars, subHist,
                   baseHist>>

EngineNext ==
    \/ \E n \in BaseNames : register_base(n)
    \/ \E n \in TableNames, rows \in Batches, f \in BOOLEAN : append_tick(n, rows, f)
    \/ \E n \in TableNames, df \in PlainFrames : update_df(n, df)
    \/ \E n \in TableNames, df \in PlainFrames : add_base_df(n, df)
    \/ register_directive("counted")
    \/ \E t \in 1..MaxTick : set_tick(t)
    \/ set_default_tick_column(TickCol)
    \/ \E n \in ViewNames, q \in ViewQueries : materialize(n, q)
    \/ \E s \in SubNames, q \in SubQueries : subscribe(s, q)
    \/ \E s \in SubNames : unsubscribe(s)
    \/ \E t \in 1..MaxTick : on_tick_begin(t)
    \/ on_tick_view
    \/ on_tick_sub
    \/ on_tick_next
    \/ \E q \in OneOffQueries : query(q)


\* ============================================ piql-server SharedState
\* catalog names and dataframes the writer works with
SNames == {"a", "b"}
SDfs == {1, 2}
SNoDf == 0
Readers == {"r1", "r2"}

VARIABLES
    sctx,        \* SharedState.ctx.dataframes: name -> df, SNoDf when absent
    wlocked,     \* the RwLock's write guard is held
    wpc,         \* position of the writer inside apply_update
    wupd,        \* the update the writer is applying
    writing,     \* the catalog entry the writer is in the middle of storing, or ""
    issued,      \* history: the updates committed so far, in order
    sent,        \* number of update_tx.send(()) calls made
    rpc,         \* position of each reader inside execute_query
    rsnap,       \* the EvalContext clone each reader took
    robs,        \* what each reader's last operation observed
    chanTail,    \* broadcast channel: position after the last value sent
    ssePc,       \* position of the SSE subscription's stream, "none" before it
    sseNext,     \* the subscription's broadcast::Receiver: next position to read
    sseSnap,     \* the context clone taken by the subscription's latest query
    sseEvents,   \* number of SSE events emitted
    sseLast,     \* history: committed mutations the last emitted event had seen
    sseSubAt,    \* history: committed mutations when the subscription started
    sseWakes,    \* history: update notifications the subscription has received
    sseSends     \* history: send(()) calls made since the subscription started

\* the SSE subscription's own state
sseVars == <<ssePc, sseNext, sseSnap, sseEvents, sseLast, sseSubAt, sseWakes, sseSends>>

stateVars == <<sctx, wlocked, wpc, wupd, writing, issued, sent, rpc, rsnap, robs,
               chanTail, sseVars>>

DfUpdate(kind, name, df) == [kind |-> kind, name |-> name, df |-> df]
NoUpdate == DfUpdate("none", "", SNoDf)
Updates == {DfUpdate("Insert", n, d) : n \in SNames, d \in SDfs}
           \cup {DfUpdate("Remove", n, SNoDf) : n \in SNames}
           \cup {DfUpdate("Reload", n, d) : n \in SNames, d \in SDfs}

\* what a reader sees of the catalog: the map, and the entry (if any) that is
\* half-written at that moment
Seen(kind, cat, torn) == [kind |-> kind, cat |-> cat, torn |-> torn]
NoSeen == Seen("none", [n \in SNames |-> SNoDf], "")
Keys(cat) == {n \in SNames : cat[n] # SNoDf}

\* the context clone a query runs on: the catalog, and how many committed
\* mutations it includes; len = -1 when no clone has been taken
Snap(cat, len) == [cat |-> cat, len |-> len]
NoSnap == Snap([n \in SNames |-> SNoDf], 0 - 1)

StateInit ==
    /\ sctx = [n \in SNames |-> SNoDf]
    /\ wlocked = FALSE
    /\ wpc = "idle"
    /\ wupd = NoUpdate
    /\ writing = ""
    /\ issued = <<>>
    /\ sent = 0
    /\ rpc = [r \in Readers |-> "idle"]
    /\ rsnap = [r \in Readers |-> NoSeen]
    /\ robs = [r \in Readers |-> NoSeen]
    /\ chanTail = 0
    /\ ssePc = "none"
    /\ sseNext = 0
    /\ sseSnap = NoSnap
    /\ sseEvents = 0
    /\ sseLast = 0
    /\ sseSubAt = 0
    /\ sseWakes = 0
    /\ sseSends = 0

\* the match in apply_update
ApplyMatch_DropOthers(cat, u) ==
    [n \in SNames |-> IF n = u.name /\ u.kind # "Remove" THEN u.df ELSE SNoDf]

ApplyMatch(cat, u) ==
    CASE u.kind = "Insert" -> [cat EXCEPT ![u.name] = u.df]
      [] u.kind = "Remove" -> [cat EXCEPT ![u.name] = SNoDf]
      [] u.kind = "Reload" -> [cat EXCEPT ![u.name] = u.df]
      [] OTHER -> cat

\* let mut ctx = self.ctx.write().await
apply_update_lock(u) ==
    /\ wpc = "idle"
    /\ Len(issued) < MaxWrites
    /\ ~wlocked
    /\ wlocked' = TRUE
    /\ wupd' = u
    /\ writing' = u.name
    /\ wpc' = "write"
    /\ UNCHANGED <<sctx, issued, sent, rpc, rsnap, robs, chanTail, sseVars>>

\* match update { ... }; drop(ctx)
apply_update_write ==
    /\ wpc = "write"
    /\ sctx' = ApplyMatch(sctx, wupd)
    /\ writing' = ""
    /\ wlocked' = FALSE
    /\ issued' = Append(issued, wupd)
    /\ wpc' = "notify"
    /\ UNCHANGED <<wupd, sent, rpc, rsnap, robs, chanTail, sseVars>>

\* broadcast::channel(16)
ChannelCapacity == 16

\* broadcast::Sender::send as seen by one receiver whose cursor is next: every
\* value takes a new position, whether or not earlier ones are still unread
chan_send_Coalesce(tail, next) == IF tail > next THEN tail ELSE tail + 1

chan_send(tail, next) == tail + 1

\* broadcast::Receiver::recv with a value available (next < tail): a receiver
\* more than the capacity behind gets RecvError::Lagged and its cursor moves to
\* the oldest value still held, otherwise it gets the value at its cursor
chan_recv(tail, next) ==
    IF tail - next > ChannelCapacity
    THEN [item |-> "Lagged", next |-> tail - ChannelCapacity]
    ELSE [item |-> "Ok", next |-> next + 1]

\* the effect of one update_tx.send(()) on the channel and on the history
Send ==
    /\ sent' = sent + 1
    /\ chanTail' = chan_send(chanTail, sseNext)
    /\ sseSends' = IF ssePc # "none" THEN sseSends + 1 ELSE sseSends

\* let _ = self.update_tx.send(())
apply_update_notify_InsertOnly ==
    /\ wpc = "notify"
    /\ IF wupd.kind = "Insert" THEN Send ELSE UNCHANGED <<sent, chanTail, sseSends>>
    /\ wupd' = NoUpdate
    /\ wpc' = "idle"
    /\ UNCHANGED <<sctx, wlocked, writing, issued, rpc, rsnap, robs,
                   ssePc, sseNext, sseSnap, sseEvents, sseLast, sseSubAt, sseWakes>>

apply_update_notify ==
    /\ wpc = "notify"
    /\ Send
    /\ wupd' = NoUpdate
    /\ wpc' = "idle"
    /\ UNCHANGED <<sctx, wlocked, writing, issued, rpc, rsnap, robs,
                   ssePc, sseNext, sseSnap, sseEvents, sseLast, sseSubAt, sseWakes>>

\* RwLock::read: granted only while no write guard is held
ReadGranted_Always == TRUE

ReadGranted == ~wlocked

\* let ctx = self.ctx.read().await.clone()
execute_query_clone(r) ==
    /\ rpc[r] = "idle"
    /\ ReadGranted
    /\ rsnap' = [rsnap EXCEPT ![r] = Seen("query", sctx, writing)]
    /\ rpc' = [rpc EXCEPT ![r] = "run"]
    /\ UNCHANGED <<sctx, wlocked, wpc, wupd, writing, issued, sent, robs, chanTail, sseVars>>

\* spawn_blocking: piql::run(&query, &ctx) on the clone
execute_query_run(r) ==
    /\ rpc[r] = "run"
    /\ robs' = [robs EXCEPT ![r] = rsnap[r]]
    /\ rpc' = [rpc EXCEPT ![r] = "idle"]
    /\ UNCHANGED <<sctx, wlocked, wpc, wupd, writing, issued, sent, rsnap, chanTail, sseVars>>

\* list_dataframes: the keys, read under the read guard
list_dataframes(r) ==
    /\ rpc[r] = "idle"
    /\ ReadGranted
    /\ robs' = [robs EXCEPT ![r] = Seen("list", Keys(sctx), writing)]
    /\ UNCHANGED <<sctx, wlocked, wpc, wupd, writing, issued, sent, rpc, rsnap, chanTail, sseVars>>

StateNext ==
    \/ \E u \in Updates : apply_update_lock(u)
    \/ apply_update_write
    \/ apply_update_notify
    \/ \E r \in Readers : execute_query_clone(r)
    \/ \E r \in Readers : execute_query_run(r)
    \/ \E r \in Readers : list_dataframes(r)

\* ------------------------------------------------- SSE subscription (sse.rs)
writerVars == <<sctx, wlocked, wpc, wupd, writing, issued, sent, chanTail>>
readerVars == <<rpc, rsnap, robs>>

\* core.subscribe_updates(): the new receiver starts at the channel's tail
subscribe_updates(tail) == tail

\* stream::once(async { () }): the triggers put in front of the update stream
trigger_stream == 1

\* the context the query of one trigger is evaluated on: execute_and_encode
\* runs inside the per-trigger closure, on a fresh clone of the shared context
execute_and_encode_Cached(now, prev) == IF prev.len >= 0 THEN prev ELSE now

execute_and_encode(now, prev) == now

\* GET /subscribe: create the receiver, build the stream
sse_subscribe ==
    /\ ssePc = "none"
    /\ sseNext' = subscribe_updates(chanTail)
    /\ sseSubAt' = Len(issued)
    /\ ssePc' = IF trigger_stream = 1 THEN "initial" ELSE "poll"
    /\ UNCHANGED <<writerVars, readerVars, sseSnap, sseEvents, sseLast, sseWakes,
                   sseSends>>

\* the stream yields its next trigger: the prepended one, or one item of the
\* BroadcastStream (filter_map turns Ok and Lagged alike into a trigger)
sse_poll ==
    /\ \/ /\ ssePc = "initial"
          /\ UNCHANGED <<sseNext, sseWakes>>
       \/ /\ ssePc = "poll"
          /\ sseNext < chanTail
          /\ sseNext' = chan_recv(chanTail, sseNext).next
          /\ sseWakes' = sseWakes + 1
    /\ ssePc' = "clone"
    /\ UNCHANGED <<writerVars, readerVars, sseSnap, sseEvents, sseLast, sseSubAt,
                   sseSends>>

\* execute_query: self.ctx.read().await.clone()
sse_execute_clone ==
    /\ ssePc = "clone"
    /\ ReadGranted
    /\ sseSnap' = execute_and_encode(Snap(sctx, Len(issued)), sseSnap)
    /\ ssePc' = "emit"
    /\ UNCHANGED <<writerVars, readerVars, sseNext, sseEvents, sseLast, sseSubAt,
                   sseWakes, sseSends>>

\* run the query on the clone, encode, emit the "result" event
sse_emit ==
    /\ ssePc = "emit"
    /\ sseEvents' = sseEvents + 1
    /\ sseLast' = sseSnap.len
    /\ ssePc' = "poll"
    /\ UNCHANGED <<writerVars, readerVars, sseNext, sseSnap, sseSubAt, sseWakes,
                   sseSends>>

SseStep == sse_poll \/ sse_execute_clone \/ sse_emit

SseNext ==
    \/ \E u \in Updates : apply_update_lock(u)
    \/ apply_update_write
    \/ apply_update_notify
    \/ sse_subscribe
    \/ sse_poll
    \/ sse_execute_clone
    \/ sse_emit

\* ============================================== piql-server RunRegistry
DEFAULT_RUN_LABEL_COLUMN == "_run"

\* run names and table names handed to load_run / remove_run
RunNames == {"r1", "r2", "_all"}
RunTables == {"t", "u"}

\* a table of a run: its schema and its rows; a row is its value and its
\* entry in the run-label column ("" when the frame has no such column)
RRow(x, label) == [x |-> x, run |-> label]
RFrame(cols, rows) == [cols |-> cols, rows |-> rows]
RunFrames == {RFrame({"x"}, <<RRow(1, "")>>),
              RFrame({"x"}, <<RRow(2, "")>>),
              RFrame({"y"}, <<RRow(3, "")>>),
              RFrame({"x", DEFAULT_RUN_LABEL_COLUMN}, <<RRow(4, "existing")>>)}

\* the frame standing for "no entry under this key"
RNoDf == RFrame({}, <<>>)

\* HashMap<String, DataFrame>: RNoDf marks a table the map does not hold
TableMaps == [RunTables -> RunFrames \cup {RNoDf}]
NoTables == [t \in RunTables |-> RNoDf]
TableKeys(tables) == {t \in RunTables : tables[t] # RNoDf}

\* catalog names: format!("{run_name}::{table}"), format!("_all::{table}") and
\* the bare table name, as (prefix, table) pairs with prefix "" for a bare name
SpecificName(run_name, table) == <<run_name, table>>
AllName(table) == <<"_all", table>>
BareName(table) == <<"", table>>
CatNames == {<<p, t>> : p \in RunNames \cup {""}, t \in RunTables}

RunInfo(name, tables) == [name |-> name, tables |-> tables]

\* SharedState::apply_update on the catalog the registry writes through
\* core.apply_update / core.insert_df
apply_update(cat, u) ==
    CASE u.kind = "Insert" -> [cat EXCEPT ![u.name] = u.df]
      [] u.kind = "Remove" -> [cat EXCEPT ![u.name] = RNoDf]
      [] u.kind = "Reload" -> [cat EXCEPT ![u.name] = u.df]
      [] OTHER -> cat

VARIABLES
    runs,          \* RunRegistry.runs: RunInfo in insertion order
    latest,        \* RunRegistry.latest: Option<String>, "" is None
    options_drop,  \* RunRegistryOptions.drop_existing_run_label_column
    rcat,          \* the shared catalog the registry writes: name -> frame
    lastRun,       \* history: the last registry call, its result, and whether
                   \* it changed the registry or the catalog
    loadHist,      \* history: (name, tables as loaded) of the registered runs
    runOps         \* number of registry calls made

runVars == <<runs, latest, options_drop, rcat, lastRun, loadHist, runOps>>

\* bound on the number of load_run / remove_run calls
MaxRunOps == 3

\* conflict: the tables handed to the call that have the run-label column;
\* clean: those that do not
RunCall(op, run_name, conflict, clean, result, changed) ==
    [op |-> op, run |-> run_name, conflict |-> conflict, clean |-> clean,
     result |-> result, changed |-> changed]

RunInit ==
    /\ runs = <<>>
    /\ latest = ""
    /\ options_drop = FALSE
    /\ rcat = [n \in CatNames |-> RNoDf]
    /\ lastRun = RunCall("new", "", {}, {}, "", FALSE)
    /\ loadHist = <<>>
    /\ runOps = 0

\* .with_column(lit(run_name).alias(run_label_column))
with_run_label(df, run_name) ==
    RFrame(df.cols \cup {DEFAULT_RUN_LABEL_COLUMN},
           [i \in 1..Len(df.rows) |-> RRow(df.rows[i].x, run_name)])

\* DataFrame::drop(run_label_column)
drop_run_label(df) ==
    RFrame(df.cols \ {DEFAULT_RUN_LABEL_COLUMN},
           [i \in 1..Len(df.rows) |-> RRow(df.rows[i].x, "")])

\* normalize_run_table: ok = FALSE is Err(RunLabelColumnConflict)
normalize_run_table_NoCheck(df, drop) == [ok |-> TRUE, df |-> df]

normalize_run_table(df, drop) ==
    IF DEFAULT_RUN_LABEL_COLUMN \in df.cols
    THEN IF drop THEN [ok |-> TRUE, df |-> drop_run_label(df)]
         ELSE [ok |-> FALSE, df |-> df]
    ELSE [ok |-> TRUE, df |-> df]

\* `if run_name == "_all"`
reserved_run_name_None(run_name) == FALSE

reserved_run_name(run_name) == run_name = "_all"

RunIndex(rs, run_name) ==
    IF \E i \in 1..Len(rs) : rs[i].name = run_name
    THEN CHOOSE i \in 1..Len(rs) : rs[i].name = run_name ELSE 0

RemoveAt(rs, idx) == [i \in 1..(Len(rs) - 1) |-> IF i < idx THEN rs[i] ELSE rs[i + 1]]

all_table_names(rs) == {t \in RunTables : \E i \in 1..Len(rs) : rs[i].tables[t] # RNoDf}

all_table_names_with(rs, extra) == all_table_names(rs) \cup TableKeys(extra)

\* the frames rebuild_all collects for a table: the annotated frame of every
\* run that has the table, in the order of self.runs
RECURSIVE frames_of(_, _)
frames_of(rs, table) ==
    IF rs = <<>> THEN <<>>
    ELSE frames_of(SubSeq(rs, 1, Len(rs) - 1), table)
         \o (IF rs[Len(rs)].tables[table] # RNoDf
             THEN <<rs[Len(rs)].tables[table]>> ELSE <<>>)

RECURSIVE rows_of(_)
rows_of(frames) ==
    IF frames = <<>> THEN <<>>
    ELSE rows_of(SubSeq(frames, 1, Len(frames) - 1)) \o frames[Len(frames)].rows

\* polars concat(...).collect() with UnionArgs::default(): a vertical union,
\* an error when the frames do not all have the same schema
concat_runs(frames) ==
    IF \A i \in 1..Len(frames) : frames[i].cols = frames[1].cols
    THEN [ok |-> TRUE, df |-> RFrame(frames[1].cols, rows_of(frames))]
    ELSE [ok |-> FALSE, df |-> frames[1]]

\* rebuild_all: the update it applies to the catalog for one table
rebuild_all(cat, rs, table) ==
    LET frames == frames_of(rs, table)
    IN IF frames = <<>> THEN apply_update(cat, DfUpdate("Remove", AllName(table), RNoDf))
       ELSE IF Len(frames) = 1
            THEN apply_update(cat, DfUpdate("Reload", AllName(table), frames[1]))
       ELSE IF concat_runs(frames).ok
            THEN apply_update(cat, DfUpdate("Reload", AllName(table), concat_runs(frames).df))
       ELSE cat  \* log::error!, return

\* Option<DataFrame>: RNoDf is None
latest_df_for(rs, latest_name, table) ==
    IF latest_name = "" \/ RunIndex(rs, latest_name) = 0 THEN RNoDf
    ELSE IF rs[RunIndex(rs, latest_name)].tables[table] = RNoDf THEN RNoDf
    ELSE drop_run_label(rs[RunIndex(rs, latest_name)].tables[table])

\* rebuild_latest_bare_names: Reload or Remove of every known bare name
rebuild_latest_bare_names_NoRemove(cat, rs, latest_name, known_tables) ==
    [n \in CatNames |->
        IF n[1] = "" /\ n[2] \in known_tables
           /\ latest_df_for(rs, latest_name, n[2]) # RNoDf
        THEN latest_df_for(rs, latest_name, n[2])
        ELSE cat[n]]

rebuild_latest_bare_names(cat, rs, latest_name, known_tables) ==
    [n \in CatNames |->
        IF n[1] = "" /\ n[2] \in known_tables
        THEN IF latest_df_for(rs, latest_name, n[2]) # RNoDf
             THEN apply_update(cat, DfUpdate("Reload", n,
                                           latest_df_for(rs, latest_name, n[2])))[n]
             ELSE apply_update(cat, DfUpdate("Remove", n, RNoDf))[n]
        ELSE cat[n]]

\* rebuild_all applied for every table in a set (they touch distinct names)
rebuild_all_tables(cat, rs, tables) ==
    [n \in CatNames |->
        IF n[1] = "_all" /\ n[2] \in tables THEN rebuild_all(cat, rs, n[2])[n]
        ELSE cat[n]]

\* what a registry call leaves behind
RunOutcome(rs, latest_name, cat, hist, result) ==
    [runs |-> rs, latest |-> latest_name, rcat |-> cat, loadHist |-> hist,
     result |-> result]

\* an early return: nothing is touched
RunSkipped(result) == RunOutcome(runs, latest, rcat, loadHist, result)

RunCommit(op, run_name, tables, out) ==
    /\ runOps < MaxRunOps
    /\ runOps' = runOps + 1
    /\ runs' = out.runs
    /\ latest' = out.latest
    /\ rcat' = out.rcat
    /\ loadHist' = out.loadHist
    /\ lastRun' = RunCall(op, run_name,
                          {t \in TableKeys(tables) :
                              DEFAULT_RUN_LABEL_COLUMN \in tables[t].cols},
                          {t \in TableKeys(tables) :
                              DEFAULT_RUN_LABEL_COLUMN \notin tables[t].cols},
                          out.result,
                          <<out.runs, out.latest, out.rcat>> # <<runs, latest, rcat>>)
    /\ UNCHANGED options_drop

\* RunRegistry::with_options: a fresh registry with the given options
with_options(drop) ==
    /\ runOps = 0
    /\ options_drop' = drop
    /\ UNCHANGED <<runs, latest, rcat, lastRun, loadHist, runOps>>

load_run_outcome(run_name, tables) ==
    IF reserved_run_name(run_name) THEN RunSkipped("skipped_reserved")
    ELSE IF RunIndex(runs, run_name) # 0 THEN RunSkipped("skipped_loaded")
    ELSE IF \E t \in TableKeys(tables) : ~normalize_run_table(tables[t], options_drop).ok
    THEN RunSkipped("RunLabelColumnConflict")
    ELSE LET known_tables_before == all_table_names(runs)
             normalized_tables ==
                 [t \in RunTables |->
                     IF tables[t] = RNoDf THEN RNoDf
                     ELSE normalize_run_table(tables[t], options_drop).df]
             annotated ==
                 [t \in RunTables |->
                     IF normalized_tables[t] = RNoDf THEN RNoDf
                     ELSE with_run_label(normalized_tables[t], run_name)]
             registered ==
                 [n \in CatNames |->
                     IF n[2] \in TableKeys(normalized_tables)
                        /\ (n = SpecificName(run_name, n[2]) \/ n = BareName(n[2]))
                     THEN normalized_tables[n[2]]
                     ELSE rcat[n]]
             runs1 == Append(runs, RunInfo(run_name, annotated))
             rebuilt == rebuild_all_tables(registered, runs1,
                                           TableKeys(normalized_tables))
         IN RunOutcome(runs1, run_name,
                       rebuild_latest_bare_names(rebuilt, runs1, run_name,
                                                 known_tables_before),
                       Append(loadHist, RunInfo(run_name, normalized_tables)),
                       "Ok")

load_run(run_name, tables) ==
    RunCommit("load_run", run_name, tables, load_run_outcome(run_name, tables))

remove_run_outcome(run_name) ==
    IF RunIndex(runs, run_name) = 0 THEN RunSkipped("not_loaded")
    ELSE LET idx == RunIndex(runs, run_name)
             removed == runs[idx]
             runs1 == RemoveAt(runs, idx)
             table_names == TableKeys(removed.tables)
             unregistered ==
                 [n \in CatNames |->
                     IF n[2] \in table_names /\ n = SpecificName(run_name, n[2])
                     THEN RNoDf ELSE rcat[n]]
             known_tables_before == all_table_names_with(runs1, removed.tables)
             latest1 == IF runs1 = <<>> THEN "" ELSE runs1[Len(runs1)].name
             rebuilt == rebuild_all_tables(unregistered, runs1, table_names)
         IN RunOutcome(runs1, latest1,
                       rebuild_latest_bare_names(rebuilt, runs1, latest1,
                                                 known_tables_before),
                       RemoveAt(loadHist, RunIndex(loadHist, run_name)),
                       "removed")

remove_run(run_name) ==
    RunCommit("remove_run", run_name, NoTables, remove_run_outcome(run_name))

RunNext ==
    \/ \E drop \in BOOLEAN : with_options(drop)
    \/ \E r \in RunNames, tables \in TableMaps : load_run(r, tables)
    \/ \E r \in RunNames : remove_run(r)

\* ------------------------------------- registry calls, one update at a time
\* load_run and remove_run reach the catalog only through core.apply_update
\* and core.insert_df, and each of these takes the write lock for one update
\* and releases it. Here a registry call is its sequence of updates, applied
\* one per step, and execute_query clones the catalog between any two of them.
VARIABLES
    pending,    \* the updates the registry call in progress has still to apply
    snapshot    \* history: the catalog execute_query cloned, and whether a
                \* registry call was in progress then

concVars == <<pending, snapshot>>

\* bound on the number of registry calls made one update at a time
MaxConcOps == 2

Snapshot(taken, during, cat) == [taken |-> taken, during |-> during, cat |-> cat]

ConcInit ==
    /\ pending = <<>>
    /\ snapshot = Snapshot(FALSE, FALSE, [n \in CatNames |-> RNoDf])

\* the orders in which a HashMap or HashSet of these tables can be iterated
TableOrders(tables) ==
    {ord \in [1..Cardinality(tables) -> tables] :
        \A t \in tables : \E i \in 1..Cardinality(tables) : ord[i] = t}

\* rebuild_all: the update it hands to apply_update, if any
rebuild_all_updates(rs, table) ==
    LET frames == frames_of(rs, table)
    IN IF frames = <<>> THEN <<DfUpdate("Remove", AllName(table), RNoDf)>>
       ELSE IF Len(frames) = 1
            THEN <<DfUpdate("Reload", AllName(table), frames[1])>>
       ELSE IF concat_runs(frames).ok
            THEN <<DfUpdate("Reload", AllName(table), concat_runs(frames).df)>>
       ELSE <<>>

\* rebuild_latest_bare_names: one update for each known table
rebuild_latest_bare_names_updates(rs, latest_name, known_tables) ==
    [i \in 1..Len(known_tables) |->
        IF latest_df_for(rs, latest_name, known_tables[i]) # RNoDf
        THEN DfUpdate("Reload", BareName(known_tables[i]),
                      latest_df_for(rs, latest_name, known_tables[i]))
        ELSE DfUpdate("Remove", BareName(known_tables[i]), RNoDf)]

RECURSIVE rebuild_all_loop(_, _)
rebuild_all_loop(rs, table_names) ==
    IF table_names = <<>> THEN <<>>
    ELSE rebuild_all_updates(rs, Head(table_names))
         \o rebuild_all_loop(rs, Tail(table_names))

\* load_run, first loop: insert_df of `run::table`, then Reload of the bare name
RECURSIVE register_loop(_, _, _)
register_loop(run_name, normalized_tables, table_names) ==
    IF table_names = <<>> THEN <<>>
    ELSE <<DfUpdate("Insert", SpecificName(run_name, Head(table_names)),
                    normalized_tables[Head(table_names)]),
           DfUpdate("Reload", BareName(Head(table_names)),
                    normalized_tables[Head(table_names)])>>
         \o register_loop(run_name, normalized_tables, Tail(table_names))

\* remove_run, first loop: Remove of `run::table`
unregister_loop(run_name, table_names) ==
    [i \in 1..Len(table_names) |->
        DfUpdate("Remove", SpecificName(run_name, table_names[i]), RNoDf)]

\* what a call writes to the registry on its way (self.runs, self.latest:
\* only the call itself reads them) and the updates it makes, in order
BeginCall(rs, latest_name, updates) ==
    /\ runs' = rs
    /\ latest' = latest_name
    /\ pending' = updates

\* load_run up to its first apply_update
load_run_begin(run_name, tables) ==
    /\ pending = <<>>
    /\ runOps < MaxConcOps
    /\ runOps' = runOps + 1
    /\ IF load_run_outcome(run_name, tables).result # "Ok"
       THEN UNCHANGED <<runs, latest, pending>>
       ELSE \E table_names \in TableOrders(TableKeys(tables)),
               known_tables_before \in TableOrders(all_table_names(runs)) :
              LET out == load_run_outcome(run_name, tables)
                  normalized_tables ==
                      [t \in RunTables |->
                          IF tables[t] = RNoDf THEN RNoDf
                          ELSE normalize_run_table(tables[t], options_drop).df]
              IN BeginCall(out.runs, out.latest,
                           register_loop(run_name, normalized_tables, table_names)
                           \o rebuild_all_loop(out.runs, table_names)
                           \o rebuild_latest_bare_names_updates(
                                  out.runs, out.latest, known_tables_before))
    /\ UNCHANGED <<options_drop, rcat, lastRun, loadHist, snapshot>>

\* remove_run up to its first apply_update
remove_run_begin(run_name) ==
    /\ pending = <<>>
    /\ runOps < MaxConcOps
    /\ runOps' = runOps + 1
    /\ IF RunIndex(runs, run_name) = 0
       THEN UNCHANGED <<runs, latest, pending>>
       ELSE LET removed == runs[RunIndex(runs, run_name)]
                out == remove_run_outcome(run_name)
            IN \E table_names \in TableOrders(TableKeys(removed.tables)) :
                  \* all_table_names_with sorts the names
                  LET known_tables_before ==
                          SelectSeq(<<"t", "u">>,
                                    LAMBDA t : t \in all_table_names_with(out.runs,
                                                                          removed.tables))
                  IN BeginCall(out.runs, out.latest,
                               unregister_loop(run_name, table_names)
                               \o rebuild_all_loop(out.runs, table_names)
                               \o rebuild_latest_bare_names_updates(
                                      out.runs, out.latest, known_tables_before))
    /\ UNCHANGED <<options_drop, rcat, lastRun, loadHist, snapshot>>

\* the next core.apply_update of the call in progress
registry_apply_update ==
    /\ pending # <<>>
    /\ rcat' = apply_update(rcat, Head(pending))
    /\ pending' = Tail(pending)
    /\ UNCHANGED <<runs, latest, options_drop, lastRun, loadHist, runOps, snapshot>>

\* execute_query of another task: `self.ctx.read().await.clone()`
execute_query ==
    /\ ~snapshot.taken
    /\ snapshot' = Snapshot(TRUE, pending # <<>>, rcat)
    /\ UNCHANGED <<runVars, pending>>

ConcNext ==
    \/ \E r \in RunNames, tables \in TableMaps : load_run_begin(r, tables)
    \/ \E r \in RunNames : remove_run_begin(r)
    \/ registry_apply_update
    \/ execute_query

\* ================================================== piql::run on a context
\* An EvalContext built with the builder methods of EvalContext and the calls
\* QueryEngine makes on it, and piql::run applied to queries against it.
VARIABLES
    evCtx,   \* the EvalContext
    evCall   \* history: the last run() call and what it returned

evalVars == <<evCtx, evCall>>

\* the identifiers X and Y of the queries, and the frame registered for them
EvalNames == {"e", "v1"}
EvalFrames == {Frame(FullCols, <<Row(1, 2), Row(2, 1)>>)}

ScopeMethods == {"at", "since", "window", "all"}

EvalQueries ==
    {QJoin(x, y) : x \in EvalNames, y \in EvalNames \cup {"pl"}}
    \cup {QJoinAt(x, y, 1) : x \in EvalNames, y \in EvalNames}
    \cup {QAtJoin(x, y, 1) : x \in EvalNames, y \in EvalNames}
    \cup {QJoinScope("e", "v1", m, 1) : m \in ScopeMethods \ {"at"}}
    \cup {QJoinFilterScope("e", "v1", m, 1) : m \in ScopeMethods}

\* EvalContext::new()
NewContext ==
    [dataframes |-> [n \in Names |-> NoEntry],
     base_tables |-> [n \in Names |-> NoBase],
     tick |-> NoTick, default_tick_column |-> NoCol, sugar |-> {}]

\* a name that evaluates to a table with a tick column configured for it: a
\* base table that has data, or a dataframe registered with a TimeSeriesConfig
TimeSeriesTable(ctx, name) ==
    /\ eval_ident(name, ctx).kind = "df"
    /\ \/ ctx.base_tables[name].present
       \/ ctx.dataframes[name].present /\ ctx.dataframes[name].time_series # NoCol

\* the identifiers a query names: its root and the partners of its joins
QueryTables(q) ==
    {q.root} \cup {q.ops[i].pred : i \in {j \in 1..Len(q.ops) : q.ops[j].m = "join"}}

\* ts: every table the query names was a time-series table when the call
\* was made
\* recv: what the chain evaluated to before its last method call, the
\* lineage of a table or the kind of any other value
\* tick: ctx.tick when the call was made
EvalCall(q, val, err, ts, recv, t) ==
    [q |-> q, kind |-> val.kind, lineage |-> val.lineage.k, err |-> err, ts |-> ts,
     recv |-> recv, tick |-> t]

EvalInit ==
    /\ evCtx = NewContext
    /\ evCall = EvalCall(NoQuery, ValErr, "", FALSE, "", NoTick)

with_df(name, df) ==
    /\ evCtx' = [evCtx EXCEPT !.dataframes[name] = DataFrameEntry(df, NoCol)]
    /\ UNCHANGED evCall

with_time_series_df(name, df) ==
    /\ evCtx' = [evCtx EXCEPT !.dataframes[name] = DataFrameEntry(df, TickCol)]
    /\ UNCHANGED evCall

with_tick(t) ==
    /\ evCtx' = [evCtx EXCEPT !.tick = t]
    /\ UNCHANGED evCall

with_default_tick_column ==
    /\ evCtx' = [evCtx EXCEPT !.default_tick_column = TickCol]
    /\ UNCHANGED evCall

register_base_table(name) ==
    /\ evCtx' = [evCtx EXCEPT !.base_tables[name] =
                                  BaseTableEntry(NoneLF, NoneLF, TickCol)]
    /\ UNCHANGED evCall

\* EvalContext::update_base_table_ptrs on evCtx, with the pointers
\* QueryEngine::append_tick passes: all the rows so far, and the last batch
base_table_ptrs(name, all, now) ==
    /\ evCtx.base_tables[name].present
    /\ evCtx' = [evCtx EXCEPT
                   !.base_tables[name] =
                       BaseTableEntry(SomeLF(all), SomeLF(now),
                                      evCtx.base_tables[name].config),
                   !.dataframes[name] =
                       DataFrameEntry(all, evCtx.base_tables[name].config)]
    /\ UNCHANGED evCall

\* the error of a failed run: the scope method's own error when the chain up
\* to it evaluated to a table, any other error otherwise
run_error(q, ctx) ==
    LET core == transform_with_sugar(q, ctx.sugar)
        k == Len(q.ops)
    IN IF run(q, ctx).kind # "err" THEN ""
       ELSE IF k > 0 /\ core.ops[k].m = "window" /\ eval(core, k - 1, ctx).kind = "df"
               /\ ctx.tick = NoTick
            THEN "requires tick in context"
       ELSE IF k > 0 /\ core.ops[k].m \in {"at", "since", "window"}
               /\ eval(core, k - 1, ctx).kind = "df"
            THEN scope_error(eval(core, k - 1, ctx).lineage, ctx)
       ELSE "other"

\* the receiver of the last method call of q
receiver(q, ctx) ==
    LET core == transform_with_sugar(q, ctx.sugar)
        k == Len(q.ops)
    IN IF k = 0 THEN ""
       ELSE IF eval(core, k - 1, ctx).kind = "df" THEN eval(core, k - 1, ctx).lineage.k
       ELSE eval(core, k - 1, ctx).kind

eval_run(q) ==
    /\ evCall' = EvalCall(q, run(q, evCtx), run_error(q, evCtx),
                          \A n \in QueryTables(q) : TimeSeriesTable(evCtx, n),
                          receiver(q, evCtx), evCtx.tick)
    /\ UNCHANGED evCtx

EvalNext ==
    \/ \E name \in EvalNames, df \in EvalFrames : with_df(name, df)
    \/ \E name \in EvalNames, df \in EvalFrames : with_time_series_df(name, df)
    \/ with_default_tick_column
    \/ with_tick(1)
    \/ \E name \in EvalNames : register_base_table(name)
    \/ \E name \in EvalNames, all \in EvalFrames :
          base_table_ptrs(name, all, AtFilter(all, all.rows[Len(all.rows)].tick))
    \/ \E q \in EvalQueries : eval_run(q)

\* ========================================================= surface trees
\* ast::surface::Expr and ast::core::Expr as trees of nodes: k is the variant,
\* name its string (identifier, attribute, operator, directive, keyword), lit
\* the Literal variant of a literal, kids its children in source order. An
\* argument is a node of its own (Positional / Keyword) with one child.
Node(k, name, kids) == [k |-> k, lit |-> "", name |-> name, kids |-> kids]

SIdent(s) == Node("Ident", s, <<>>)
SLit(kind, text) == [k |-> "Literal", lit |-> kind, name |-> text, kids |-> <<>>]
SList(items) == Node("List", "", items)
SAttr(base, name) == Node("Attr", name, <<base>>)
SBinaryOp(lhs, op, rhs) == Node("BinaryOp", op, <<lhs, rhs>>)
SUnaryOp(op, operand) == Node("UnaryOp", op, <<operand>>)
SColShorthand(name) == Node("ColShorthand", name, <<>>)
SDirective(name, args) == Node("Directive", name, args)
SCall(callee, args) == Node("Call", "", <<callee>> \o args)
Positional(e) == Node("Positional", "", <<e>>)
Keyword(name, e) == Node("Keyword", name, <<e>>)

callee_of(call) == call.kids[1]
args_of(call) == SubSeq(call.kids, 2, Len(call.kids))

\* the two nodes only the core tree has, and the unwinding of a panic
Invalid(msg) == Node("Invalid", msg, <<>>)
WhenThenOtherwise(branches, otherwise) ==
    Node("WhenThenOtherwise", "", branches \o <<otherwise>>)
Panic(msg) == Node("Panic", msg, <<>>)

\* a node built from children one of which panicked is never built
Unwind(node) ==
    IF \E i \in DOMAIN node.kids : node.kids[i].k = "Panic"
    THEN node.kids[CHOOSE i \in DOMAIN node.kids :
                      /\ node.kids[i].k = "Panic"
                      /\ \A j \in DOMAIN node.kids :
                            node.kids[j].k = "Panic" => i <= j]
    ELSE node

\* ------------------------------------------------------------- registry
\* SugarRegistry: the registered directive names and col-method names. A
\* registered directive's handler is a caller-supplied function of the
\* transformed arguments; it is modelled by the call `name(args)` it stands
\* for. The col-method handler is the built-in `delta`.
SugarRegistry(directives, col_methods) ==
    [directives |-> directives, col_methods |-> col_methods]

method_call(e, name, args) == SCall(SAttr(e, name), args)

expand_directive(registry, name, args) ==
    IF name \in registry.directives THEN SCall(SIdent(name), args)
    ELSE Node("None", "", <<>>)

expand_col_method(registry, col_expr, method, args) ==
    LET partition == <<Positional(SLit("String", "entity_id"))>>
    IN IF method \notin registry.col_methods THEN Node("None", "", <<>>)
       ELSE IF args = <<>>
       THEN method_call(method_call(col_expr, "diff", <<>>), "over", partition)
       ELSE SBinaryOp(col_expr, "-",
                      method_call(method_call(col_expr, "shift", args),
                                  "over", partition))

build_pl_col(name) ==
    SCall(SAttr(SIdent("pl"), "col"), <<Positional(SLit("String", name))>>)

get_single_positional_arg(args) ==
    IF Len(args) = 1 /\ args[1].k = "Positional" THEN args[1].kids[1]
    ELSE Node("None", "", <<>>)

is_pl_ident(expr) == expr.k = "Ident" /\ expr.name = "pl"

\* try_extract_when_chain: the (condition, then_value) pairs of
\* pl.when(c).then(v)[.when(c).then(v)]*, root first, flattened; <<Node None>>
\* when the expression is not such a chain.
RECURSIVE try_extract_when_chain(_)
try_extract_when_chain(current) ==
    LET none == <<Node("None", "", <<>>)>>
        then_callee == callee_of(current)
        when_expr == then_callee.kids[1]
        when_callee == callee_of(when_expr)
        inner == when_callee.kids[1]
        then_value == get_single_positional_arg(args_of(current))
        condition == get_single_positional_arg(args_of(when_expr))
    IN IF ~(current.k = "Call" /\ then_callee.k = "Attr") THEN none
       ELSE IF then_callee.name # "then" THEN none
       ELSE IF then_value.k = "None" THEN none
       ELSE IF ~(when_expr.k = "Call" /\ when_callee.k = "Attr") THEN none
       ELSE IF when_callee.name # "when" THEN none
       ELSE IF condition.k = "None" THEN none
       ELSE IF is_pl_ident(inner) THEN <<condition, then_value>>
       ELSE LET rest == try_extract_when_chain(inner)
            IN IF rest[1].k = "None" THEN none
               ELSE rest \o <<condition, then_value>>

\* find_map over the otherwise arguments: the first positional one
first_positional(args) ==
    IF \E i \in DOMAIN args : args[i].k = "Positional"
    THEN args[CHOOSE i \in DOMAIN args :
                 /\ args[i].k = "Positional"
                 /\ \A j \in DOMAIN args : args[j].k = "Positional" => i <= j].kids[1]
    ELSE Node("None", "", <<>>)

\* crates/piql transform: the pass with the sugar registry
RECURSIVE transform_expr(_, _)
build_when_then_otherwise(chain, otherwise_args, registry) ==
    IF first_positional(otherwise_args).k = "None"
    THEN Invalid("otherwise() requires an argument")
    ELSE WhenThenOtherwise(
            [i \in DOMAIN chain |-> transform_expr(chain[i], registry)],
            transform_expr(first_positional(otherwise_args), registry))

transform_surface_args(args, registry) ==
    [i \in DOMAIN args |-> transform_expr(args[i], registry)]

transform_expr(expr, registry) ==
    LET kids == expr.kids
    IN CASE expr.k \in {"Ident", "Literal"} -> expr
         [] expr.k = "List" -> SList(transform_surface_args(kids, registry))
         [] expr.k \in {"Positional", "Keyword"} ->
               Node(expr.k, expr.name, <<transform_expr(kids[1], registry)>>)
         [] expr.k = "Attr" ->
               IF /\ kids[1].k = "ColShorthand"
                  /\ expr.name \in registry.col_methods
               THEN expand_col_method(registry, build_pl_col(kids[1].name),
                                      expr.name, <<>>)
               ELSE SAttr(transform_expr(kids[1], registry), expr.name)
         [] expr.k = "BinaryOp" ->
               SBinaryOp(transform_expr(kids[1], registry), expr.name,
                         transform_expr(kids[2], registry))
         [] expr.k = "UnaryOp" ->
               SUnaryOp(expr.name, transform_expr(kids[1], registry))
         [] expr.k = "ColShorthand" -> build_pl_col(expr.name)
         [] expr.k = "Directive" ->
               IF expr.name \in registry.directives
               THEN expand_directive(registry, expr.name,
                                     transform_surface_args(kids, registry))
               ELSE Invalid("Unknown directive")
         [] expr.k = "Call" ->
               LET callee == callee_of(expr)
                   args == args_of(expr)
               IN IF /\ callee.k = "Attr"
                     /\ callee.name = "otherwise"
                     /\ try_extract_when_chain(callee.kids[1])[1].k # "None"
                  THEN build_when_then_otherwise(
                          try_extract_when_chain(callee.kids[1]), args, registry)
                  ELSE IF callee.k = "Attr" /\ callee.kids[1].k = "ColShorthand"
                  THEN IF callee.name \in registry.col_methods
                       THEN expand_col_method(
                               registry, build_pl_col(callee.kids[1].name),
                               callee.name, transform_surface_args(args, registry))
                       ELSE SCall(SAttr(build_pl_col(callee.kids[1].name),
                                        callee.name),
                                  transform_surface_args(args, registry))
                  ELSE SCall(transform_expr(callee, registry),
                             transform_surface_args(args, registry))

\* the root crate's transform (src/src/transform.rs): no registry, and
\* `.expect("otherwise() requires an argument")` where the other pass builds
\* an Invalid node. It has no arms for ColShorthand and Directive, which its
\* surface tree does not have.
RECURSIVE root_transform_expr(_)
root_build_when_then_otherwise(chain, otherwise_args) ==
    IF first_positional(otherwise_args).k = "None"
    THEN Panic("otherwise() requires an argument")
    ELSE Unwind(WhenThenOtherwise(
            [i \in DOMAIN chain |-> root_transform_expr(chain[i])],
            root_transform_expr(first_positional(otherwise_args))))

root_transform_expr(expr) ==
    LET kids == expr.kids
    IN CASE expr.k \in {"Ident", "Literal"} -> expr
         [] expr.k \in {"List", "Attr", "BinaryOp", "UnaryOp",
                        "Positional", "Keyword"} ->
               Unwind(Node(expr.k, expr.name,
                           [i \in DOMAIN kids |-> root_transform_expr(kids[i])]))
         [] expr.k = "Call" ->
               LET callee == callee_of(expr)
                   args == args_of(expr)
               IN IF /\ callee.k = "Attr"
                     /\ callee.name = "otherwise"
                     /\ try_extract_when_chain(callee.kids[1])[1].k # "None"
                  THEN root_build_when_then_otherwise(
                          try_extract_when_chain(callee.kids[1]), args)
                  ELSE Unwind(SCall(root_transform_expr(callee),
                                    [i \in DOMAIN args |->
                                        root_transform_expr(args[i])]))

\* ---------------------------------------------------------------- texts
\* A text is the sequence of lexemes written to it; its length in bytes is
\* the sum of theirs. White space is a lexeme of its own, so that the parser
\* skips it only where its grammar has `ws`.
RECURSIVE TextLen(_)
TextLen(text) == IF text = <<>> THEN 0 ELSE Len(Head(text)) + TextLen(Tail(text))

WhiteSpace == {" ", "\n    ", "\n        "}

\* the identifiers, the numerals with the value they denote (the value is
\* written as Rust's `{}` prints it) and the string contents of the model
IdentLexemes == {"a", "b", "c", "d", "f", "k", "m", "n", "x", "y", "df", "pl",
                 "col", "alias", "run::t"}
IntLexemes == {"1", "01"}
IntValue(tok) == IF tok = "01" THEN "1" ELSE tok
FloatLexemes == {"1.0", "1.5", "1.50"}
FloatValue(tok) == IF tok = "1.0" THEN "1" ELSE "1.5"
FloatIsIntegral(v) == v = "1"
StringValues == {"s", "diff"}
Quoted(s) == "\"" \o s \o "\""

\* the result of a Rust panic in place of a text
PanicText == <<"panicked">>

Cat(s, t) == IF s = PanicText \/ t = PanicText THEN PanicText ELSE s \o t

\* ------------------------------------------------------ Display (one line)
\* impl Display for Literal
literal_to_string(lit) ==
    CASE lit.lit = "String" -> <<Quoted(lit.name)>>
      [] lit.lit = "Int" -> <<lit.name>>
      [] lit.lit = "Float" ->
            IF FloatIsIntegral(lit.name) THEN <<lit.name \o ".0">> ELSE <<lit.name>>
      [] lit.lit = "Bool" -> <<lit.name>>
      [] lit.lit = "Null" -> <<"None">>

RECURSIVE to_string(_), write_args(_)
\* write_args / format_args: the arguments joined with ", "
write_args(args) ==
    IF args = <<>> THEN <<>>
    ELSE IF Len(args) = 1 THEN to_string(args[1])
    ELSE to_string(args[1]) \o <<",", " ">> \o write_args(Tail(args))

\* impl Display for Expr and for Arg
to_string(e) ==
    LET kids == e.kids
        parens(x) == <<"(">> \o to_string(x) \o <<")">>
        is_binary(x) == x.k = "BinaryOp"
    IN CASE e.k = "Ident" -> <<e.name>>
         [] e.k = "Literal" -> literal_to_string(e)
         [] e.k = "List" -> <<"[">> \o write_args(kids) \o <<"]">>
         [] e.k = "Attr" ->
               (IF kids[1].k \in {"BinaryOp", "UnaryOp"} THEN parens(kids[1])
                ELSE to_string(kids[1])) \o <<".", e.name>>
         [] e.k = "Call" ->
               to_string(callee_of(e)) \o <<"(">> \o write_args(args_of(e)) \o <<")">>
         [] e.k = "BinaryOp" ->
               (IF is_binary(kids[1]) THEN parens(kids[1]) ELSE to_string(kids[1]))
               \o <<" ", e.name, " ">>
               \o (IF is_binary(kids[2]) THEN parens(kids[2]) ELSE to_string(kids[2]))
         [] e.k = "UnaryOp" ->
               <<e.name>> \o (IF is_binary(kids[1]) THEN parens(kids[1])
                              ELSE to_string(kids[1]))
         [] e.k = "ColShorthand" -> <<"$", e.name>>
         [] e.k = "Directive" ->
               <<"@", e.name>>
               \o (IF kids # <<>> THEN <<"(">> \o write_args(kids) \o <<")">> ELSE <<>>)
         [] e.k = "Positional" -> to_string(kids[1])
         [] e.k = "Keyword" -> <<e.name, "=">> \o to_string(kids[1])

\* ------------------------------------------------------- line breaking
ChainSegment(seg, name, args, base) ==
    [seg |-> seg, name |-> name, args |-> args, base |-> base]

RECURSIVE collect_chain(_)
collect_chain(e) ==
    CASE e.k = "Call" /\ callee_of(e).k = "Attr" ->
            collect_chain(callee_of(e).kids[1])
            \o <<ChainSegment("Call", callee_of(e).name, args_of(e), SIdent(""))>>
      [] e.k = "Attr" ->
            collect_chain(e.kids[1]) \o <<ChainSegment("Attr", e.name, <<>>, SIdent(""))>>
      [] OTHER -> <<ChainSegment("Base", "", <<>>, e)>>

flatten_chain(e) == collect_chain(e)

saturating_sub(a, b) == IF a > b THEN a - b ELSE 0

\* pretty(expr, width). `width - 4` is a usize subtraction: for width < 4 it
\* panics in a build with overflow checks and wraps to 2^64 - (4 - width) in
\* one without, where no line is longer than it.
RECURSIVE pretty(_, _, _), pretty_args(_, _, _), pretty_segments(_, _, _, _)
pretty_args(args, width, overflow_checks) ==
    LET arg == args[1]
        arg_str ==
            IF arg.k = "Positional"
            THEN pretty(arg.kids[1], saturating_sub(width, 8), overflow_checks)
            ELSE Cat(<<arg.name, "=">>,
                     pretty(arg.kids[1],
                            saturating_sub(width, 8 + Len(arg.name) + 1),
                            overflow_checks))
    IN IF Len(args) = 1 THEN arg_str
       ELSE Cat(Cat(arg_str, <<",", "\n        ">>),
                pretty_args(Tail(args), width, overflow_checks))

pretty_segments(segments, j, width, overflow_checks) ==
    LET seg == segments[j]
        break == IF j > 2 THEN <<"\n    ">> ELSE <<>>
        call_line == <<".", seg.name, "(">> \o write_args(seg.args) \o <<")">>
        this ==
            CASE seg.seg = "Base" -> pretty(seg.base, width, overflow_checks)
              [] seg.seg = "Attr" -> break \o <<".", seg.name>>
              [] seg.seg = "Call" ->
                    IF width < 4 /\ overflow_checks THEN PanicText
                    ELSE IF /\ width >= 4
                            /\ TextLen(call_line) > width - 4
                            /\ Len(seg.args) > 1
                    THEN Cat(Cat(break \o <<".", seg.name, "(", "\n        ">>,
                                 pretty_args(seg.args, width, overflow_checks)),
                             <<"\n    ", ")">>)
                    ELSE break \o call_line
    IN IF j > Len(segments) THEN <<>>
       ELSE Cat(this, pretty_segments(segments, j + 1, width, overflow_checks))

pretty(e, width, overflow_checks) ==
    LET one_line == to_string(e)
        segments == flatten_chain(e)
    IN IF TextLen(one_line) <= width THEN one_line
       ELSE IF Len(segments) <= 1 THEN one_line
       ELSE pretty_segments(segments, 1, width, overflow_checks)

\* ---------------------------------------------------------------- parse
\* Each parser takes the rest of the input and returns whether it matched,
\* what it built and the input left; a `repeat` or `opt` that fails part-way
\* leaves the input where that attempt began.
PResult(e, rest) == [ok |-> TRUE, e |-> e, rest |-> rest]
Backtrack == [ok |-> FALSE, e |-> SIdent(""), rest |-> <<>>]

RECURSIVE ws(_)
ws(input) ==
    IF input # <<>> /\ Head(input) \in WhiteSpace THEN ws(Tail(input)) ELSE input

starts(input, tok) == input # <<>> /\ Head(input) = tok
starts_in(input, toks) == input # <<>> /\ Head(input) \in toks

ident_str(input) ==
    IF starts_in(input, IdentLexemes) THEN PResult(SIdent(Head(input)), Tail(input))
    ELSE Backtrack

literal(input) ==
    CASE starts_in(input, {"True", "False"}) ->
            PResult(SLit("Bool", Head(input)), Tail(input))
      [] starts(input, "None") -> PResult(SLit("Null", "None"), Tail(input))
      [] starts_in(input, FloatLexemes) ->
            PResult(SLit("Float", FloatValue(Head(input))), Tail(input))
      [] starts_in(input, IntLexemes) ->
            PResult(SLit("Int", IntValue(Head(input))), Tail(input))
      [] starts_in(input, {Quoted(s) : s \in StringValues}) ->
            PResult(SLit("String", CHOOSE s \in StringValues : Quoted(s) = Head(input)),
                    Tail(input))
      [] OTHER -> Backtrack

RECURSIVE parse_expr(_), or_rest(_, _), and_expr(_), and_rest(_, _), cmp_expr(_)
RECURSIVE add_expr(_), add_rest(_, _), mul_expr(_), mul_rest(_, _), unary_expr(_)
RECURSIVE postfix_expr(_), postfix_rest(_, _), call_expr(_), call_args(_)
RECURSIVE call_args_rest(_, _), call_arg(_), primary(_)

\* the value of a one-element set: {F(r) : r \in {parser(input)}} runs the
\* parser once and names its result r
Only(S) == CHOOSE r \in S : TRUE

or_expr(input) ==
    Only({IF first.ok THEN or_rest(first.e, first.rest) ELSE Backtrack :
             first \in {and_expr(input)}})

or_rest(l, input) ==
    IF ~starts(ws(input), "|") THEN PResult(l, input)
    ELSE Only({IF r.ok THEN or_rest(SBinaryOp(l, "|", r.e), r.rest)
               ELSE PResult(l, input) :
                  r \in {and_expr(ws(Tail(ws(input))))}})

and_expr(input) ==
    Only({IF first.ok THEN and_rest(first.e, first.rest) ELSE Backtrack :
             first \in {cmp_expr(input)}})

and_rest(l, input) ==
    IF ~starts(ws(input), "&") THEN PResult(l, input)
    ELSE Only({IF r.ok THEN and_rest(SBinaryOp(l, "&", r.e), r.rest)
               ELSE PResult(l, input) :
                  r \in {cmp_expr(ws(Tail(ws(input))))}})

cmp_op == {"==", "!=", "<=", ">=", "<", ">"}

\* add_expr, then opt((ws, cmp_op, ws, add_expr))
cmp_expr(input) ==
    Only({IF ~left.ok THEN Backtrack
          ELSE IF ~starts_in(ws(left.rest), cmp_op) THEN left
          ELSE Only({IF right.ok
                     THEN PResult(SBinaryOp(left.e, Head(ws(left.rest)), right.e),
                                  right.rest)
                     ELSE left :
                        right \in {add_expr(ws(Tail(ws(left.rest))))}}) :
             left \in {add_expr(input)}})

add_op == {"+", "-"}

add_expr(input) ==
    Only({IF first.ok THEN add_rest(first.e, first.rest) ELSE Backtrack :
             first \in {mul_expr(input)}})

add_rest(l, input) ==
    IF ~starts_in(ws(input), add_op) THEN PResult(l, input)
    ELSE Only({IF r.ok THEN add_rest(SBinaryOp(l, Head(ws(input)), r.e), r.rest)
               ELSE PResult(l, input) :
                  r \in {mul_expr(ws(Tail(ws(input))))}})

mul_op == {"*", "/", "%"}

mul_expr(input) ==
    Only({IF first.ok THEN mul_rest(first.e, first.rest) ELSE Backtrack :
             first \in {unary_expr(input)}})

mul_rest(l, input) ==
    IF ~starts_in(ws(input), mul_op) THEN PResult(l, input)
    ELSE Only({IF r.ok THEN mul_rest(SBinaryOp(l, Head(ws(input)), r.e), r.rest)
               ELSE PResult(l, input) :
                  r \in {unary_expr(ws(Tail(ws(input))))}})

\* alt(('-' ws unary_expr), ('~' ws unary_expr), postfix_expr)
unary_expr(input) ==
    IF ~starts_in(input, {"-", "~"}) THEN postfix_expr(input)
    ELSE Only({IF operand.ok
               THEN PResult(SUnaryOp(Head(input), operand.e), operand.rest)
               ELSE postfix_expr(input) :
                  operand \in {unary_expr(ws(Tail(input)))}})

postfix_expr(input) ==
    Only({IF base.ok THEN postfix_rest(base.e, base.rest) ELSE Backtrack :
             base \in {primary(input)}})

\* repeat(0.., postfix_op), postfix_op = preceded(ws, alt((attr_access, call_expr)))
postfix_rest(acc, input) ==
    IF starts(ws(input), ".")
    THEN Only({IF attr.ok THEN postfix_rest(SAttr(acc, attr.e.name), attr.rest)
               ELSE PResult(acc, input) :
                  attr \in {ident_str(Tail(ws(input)))}})
    ELSE IF starts(ws(input), "(")
    THEN Only({IF call.ok THEN postfix_rest(SCall(acc, call.e.kids), call.rest)
               ELSE PResult(acc, input) :
                  call \in {call_expr(ws(input))}})
    ELSE PResult(acc, input)

\* '(' ws opt(call_args) ws ')' ; the arguments are returned as a List's items
call_expr(input) ==
    IF ~starts(input, "(") THEN Backtrack
    ELSE Only({IF starts(ws(IF some.ok THEN some.rest ELSE Tail(input)), ")")
               THEN PResult(SList(IF some.ok THEN some.e.kids ELSE <<>>),
                            Tail(ws(IF some.ok THEN some.rest ELSE Tail(input))))
               ELSE Backtrack :
                  some \in {call_args(ws(Tail(input)))}})

\* separated(1.., call_arg, (ws, ',', ws)) then an optional trailing comma
call_args(input) ==
    Only({IF first.ok THEN call_args_rest(<<first.e>>, first.rest) ELSE Backtrack :
             first \in {call_arg(input)}})

call_args_rest(acc, input) ==
    IF ~starts(ws(input), ",") THEN PResult(SList(acc), input)
    ELSE Only({IF next.ok THEN call_args_rest(Append(acc, next.e), next.rest)
               ELSE PResult(SList(acc), Tail(ws(input))) :
                  next \in {call_arg(ws(Tail(ws(input))))}})

\* alt((ident_str ws '=' ws expr), expr)
call_arg(input) ==
    LET positional ==
            Only({IF e.ok THEN PResult(Positional(e.e), e.rest) ELSE Backtrack :
                     e \in {parse_expr(input)}})
    IN IF ident_str(input).ok /\ starts(ws(Tail(input)), "=")
       THEN Only({IF value.ok
                  THEN PResult(Keyword(Head(input), value.e), value.rest)
                  ELSE positional :
                     value \in {parse_expr(ws(Tail(ws(Tail(input)))))}})
       ELSE positional

paren_expr(input) ==
    IF ~starts(input, "(") THEN Backtrack
    ELSE Only({IF inner.ok /\ starts(ws(inner.rest), ")")
               THEN PResult(inner.e, Tail(ws(inner.rest)))
               ELSE Backtrack :
                  inner \in {parse_expr(ws(Tail(input)))}})

\* '[' ws opt(separated(1.., expr, (ws, ',', ws)) opt((ws, ','))) ws ']'
RECURSIVE list_items(_, _)
list_items(acc, input) ==
    IF ~starts(ws(input), ",") THEN PResult(SList(acc), input)
    ELSE Only({IF next.ok THEN list_items(Append(acc, next.e), next.rest)
               ELSE PResult(SList(acc), Tail(ws(input))) :
                  next \in {parse_expr(ws(Tail(ws(input))))}})

list_expr(input) ==
    IF ~starts(input, "[") THEN Backtrack
    ELSE Only({Only({IF starts(ws(items.rest), "]")
                     THEN PResult(items.e, Tail(ws(items.rest)))
                     ELSE Backtrack :
                        items \in {IF first.ok THEN list_items(<<first.e>>, first.rest)
                                   ELSE PResult(SList(<<>>), ws(Tail(input)))}}) :
                  first \in {parse_expr(ws(Tail(input)))}})

col_shorthand(input) ==
    IF starts(input, "$") /\ ident_str(Tail(input)).ok
    THEN PResult(SColShorthand(input[2]), SubSeq(input, 3, Len(input)))
    ELSE Backtrack

\* '@' ident_str opt('(' ws call_args ws ')')
directive(input) ==
    IF ~(starts(input, "@") /\ ident_str(Tail(input)).ok) THEN Backtrack
    ELSE IF ~starts(SubSeq(input, 3, Len(input)), "(")
    THEN PResult(SDirective(input[2], <<>>), SubSeq(input, 3, Len(input)))
    ELSE Only({IF some.ok /\ starts(ws(some.rest), ")")
               THEN PResult(SDirective(input[2], some.e.kids), Tail(ws(some.rest)))
               ELSE PResult(SDirective(input[2], <<>>), SubSeq(input, 3, Len(input))) :
                  some \in {call_args(ws(SubSeq(input, 4, Len(input))))}})

\* preceded(ws, alt((paren_expr, list_expr, col_shorthand, directive, literal, ident)))
primary(input) ==
    CASE starts(ws(input), "(") -> paren_expr(ws(input))
      [] starts(ws(input), "[") -> list_expr(ws(input))
      [] starts(ws(input), "$") -> col_shorthand(ws(input))
      [] starts(ws(input), "@") -> directive(ws(input))
      [] literal(ws(input)).ok -> literal(ws(input))
      [] OTHER -> ident_str(ws(input))

parse_expr(input) == or_expr(input)

\* parse(input): the whole trimmed input must be one expression
parse(input) ==
    Only({IF parsed.ok /\ ws(parsed.rest) = <<>> THEN parsed ELSE Backtrack :
             parsed \in {parse_expr(ws(input))}})

\* --------------------------------------------------------- syntax calls
\* The three functions are pure: a behaviour is one call of one of them on
\* one input.
VARIABLES
    synCall     \* history: the last transform or parse-pretty-parse call and its results

synVars == <<synCall>>

NoRegistry == SugarRegistry({}, {})

SynCall(op, expr, registry, out) ==
    [op |-> op, expr |-> expr, registry |-> registry, out |-> out,
     src |-> <<>>, width |-> 0, overflow_checks |-> FALSE, text |-> <<>>,
     reparsed |-> Backtrack]

PrettyCall(src, e, width, overflow_checks, text, reparsed) ==
    [op |-> "pretty", expr |-> e, registry |-> NoRegistry, out |-> SIdent(""),
     src |-> src, width |-> width, overflow_checks |-> overflow_checks,
     text |-> text, reparsed |-> reparsed]

SynInit == synCall = SynCall("", SIdent(""), NoRegistry, SIdent(""))

\* the argument lists and when/then/otherwise chains the calls are made on
SynLeaves == {SIdent("a"), SLit("Int", "1")}

SynArgLists ==
    {<<>>} \cup {<<Positional(e)>> : e \in SynLeaves}
    \cup {<<Keyword("k", SIdent("a"))>>,
          <<Positional(SIdent("a")), Positional(SIdent("b"))>>,
          <<Keyword("k", SIdent("a")), Positional(SIdent("b"))>>}

WhenChain(root, when_args, then_args, otherwise_args) ==
    SCall(SAttr(SCall(SAttr(SCall(SAttr(root, "when"), when_args),
                            "then"), then_args),
                "otherwise"), otherwise_args)

PlainTrees ==
    {WhenChain(SIdent("pl"), w, t, o) :
        w \in {<<Positional(SIdent("c"))>>, <<>>},
        t \in {<<Positional(SIdent("v"))>>, <<Keyword("k", SIdent("v"))>>},
        o \in SynArgLists}
    \cup {WhenChain(SCall(SAttr(SCall(SAttr(SIdent(r), "when"),
                                      <<Positional(SIdent("c"))>>),
                                "then"), <<Positional(SIdent("v"))>>),
                    <<Positional(SIdent("d"))>>, <<Positional(SIdent("w"))>>, o) :
             r \in {"pl", "df"}, o \in SynArgLists}
    \cup {SBinaryOp(SIdent("a"), "+",
                    WhenChain(SIdent("pl"), <<Positional(SIdent("c"))>>,
                              <<Positional(SIdent("v"))>>, o)) : o \in SynArgLists}
    \cup {SList(<<SIdent("a"),
                  SCall(SAttr(SIdent("df"), "f"),
                        <<Positional(WhenChain(SIdent("pl"),
                                               <<Positional(SIdent("c"))>>,
                                               <<Positional(SIdent("v"))>>, o))>>)>>) :
             o \in SynArgLists}
    \cup {SUnaryOp("-", SAttr(SIdent("a"), "b"))}

SugarTrees ==
    {SDirective(n, args) : n \in {"known", "nope"}, args \in SynArgLists}
    \cup {SCall(SAttr(SColShorthand("x"), m), args) :
             m \in {"delta", "abs"}, args \in SynArgLists}
    \cup {SAttr(SColShorthand("x"), m) : m \in {"delta", "abs"}}
    \cup {WhenChain(SIdent("pl"), <<Positional(SColShorthand("x"))>>,
                    <<Positional(SDirective(n, <<>>))>>, o) :
             n \in {"known", "nope"}, o \in SynArgLists}
    \cup {SCall(SAttr(SIdent("df"), "filter"),
                <<Positional(SBinaryOp(SColShorthand("x"), ">",
                                       SDirective(n, <<>>)))>>) :
             n \in {"known", "nope"}}

SynRegistries ==
    {SugarRegistry(d, {"delta"}) : d \in {{}, {"known"}}}

\* the source texts the trees are parsed from, and the widths they are
\* printed at
SrcBases ==
    {<<"a">>,
     <<"(", "a", " ", "+", " ", "b", ")">>,
     <<"(", "-", "a", ")">>,
     <<"-", "a">>,
     <<"@", "d">>,
     <<"@", "d", "(", "x", ",", " ", "k", "=", "1", ")">>,
     <<"$", "x">>,
     <<"pl", ".", "col", "(", Quoted("s"), ")">>,
     <<"[", "a", ",", " ", "1.50", ",", " ", "None", ",", "]">>,
     <<"a", " ", "<", " ", "b", " ", "&", " ", "~", "c", " ", "|", " ", "True">>,
     <<"a", " ", "-", " ", "b", " ", "*", " ", "01", " ", "-", " ", "1.0">>}

SrcSuffixes ==
    {<<>>,
     <<".", "m">>,
     <<"(", "x", ")">>,
     <<" ", "(", "x", ")">>,
     <<"(", ")">>,
     <<".", "alias", "(", Quoted("diff"), ")">>,
     <<".", "m", "(", ")", ".", "n">>,
     <<".", "m", "(", "x", ",", " ", "k", "=", "y", " ", "+", " ", "1", ")",
       "\n    ", ".", "n", "(", "run::t", ".", "f", "(", "a", ",", " ", "b", ")", ",",
       " ", "c", ")">>}

SrcTexts == {base \o suffix : base \in SrcBases, suffix \in SrcSuffixes}

Widths == {3, 12, 80}

\* transform_with_sugar(expr, registry, ctx)
transform_call(expr, registry) ==
    /\ synCall.op = ""
    /\ synCall' = SynCall("transform", expr, registry, transform_expr(expr, registry))

\* the root crate's transform(expr)
root_transform_call(expr) ==
    /\ synCall.op = ""
    /\ synCall' = SynCall("root_transform", expr, NoRegistry, root_transform_expr(expr))

\* parse(src), then pretty(tree, width), then parse of what was printed; the
\* build's overflow checks are on or off
pretty_call(src, width, overflow_checks) ==
    LET tree == parse(src)
        text == pretty(tree.e, width, overflow_checks)
    IN /\ synCall.op = ""
       /\ tree.ok
       /\ synCall' = PrettyCall(src, tree.e, width, overflow_checks, text,
                                IF text = PanicText THEN Backtrack ELSE parse(text))

SynNext ==
    \/ \E expr \in PlainTrees \cup SugarTrees, registry \in SynRegistries :
          transform_call(expr, registry)
    \/ \E expr \in PlainTrees : root_transform_call(expr)
    \/ \E src \in SrcTexts, width \in Widths, overflow_checks \in BOOLEAN :
          pretty_call(src, width, overflow_checks)

\* ===================================================== WebSocket server
\* piql-serve: PiqlServer shares the engine (one mutex) and the client map
\* (another mutex) between broadcast_tick, called by the owner of the engine,
\* and one task per connection. Each lock() and each stretch of code between
\* two lock operations is one step of its thread.
MaxWsMsgs == 2
MaxBroadcasts == 2
Conns == {"c1", "c2"}
WsIds == 1..2
WsNames == {"n"}
NoHolder == "free"
Broadcaster == "tick"

\* the engine the server was given: one table `e` without the column `v`
WsEngine ==
    [NewContext EXCEPT !.dataframes["e"] = DataFrameEntry(NoVFrame, NoCol)]

\* QueryEngine::query on it: a table, a table whose collect() fails, a value
\* that is no table, an error
engine_query(q) == run(q, WsEngine)
WsQueries == {QBare("e"), QFilter("e"), QCol, QBare("v2")}

\* the IPC bytes of a collected table, by their length
ipc_size(val) == Len(val.df.rows)

\* ServerMessage (JSON text) and the binary frame that follows a header
WsMsg(t, name, size) == [t |-> t, name |-> name, size |-> size]
ResultHeader(name, size) == WsMsg("ResultHeader", name, size)
QueryResultHeader(size) == WsMsg("QueryResultHeader", "", size)
Binary(name, size) == WsMsg("Binary", name, size)
NoMsg == WsMsg("", "", 0)

\* ClientMessage
WsReq(m, name, q) == [m |-> m, name |-> name, q |-> q]
NoReq == WsReq("", "", NoQuery)
WsRequests ==
    {WsReq("ListDfs", "", NoQuery)}
    \cup {WsReq("Subscribe", n, q) : n \in WsNames, q \in WsQueries}
    \cup {WsReq("Unsubscribe", n, NoQuery) : n \in WsNames}
    \cup {WsReq("Query", "", q) : q \in WsQueries}

ClientState(present, subs) ==
    [present |-> present, subscriptions |-> subs]
NoClient == ClientState(FALSE, [n \in WsNames |-> NoQuery])

VARIABLES
    wsClients,       \* SharedState.clients: client id -> ClientState
    wsSent,          \* what was sent on each client's channel, in order
    next_id,         \* SharedState.next_id
    clientsLock,     \* the thread holding the clients mutex
    engineLock,      \* the thread holding the engine mutex
    clientsPoisoned, \* a thread panicked while holding the clients mutex
    enginePoisoned,  \* a thread panicked while holding the engine mutex
    bpc,             \* broadcast_tick: "idle" (not running) or "iter" (in its loops)
    btodo,           \* the (client, name) pairs its loops have not reached
    nticks,          \* broadcast_tick calls made
    cpc,             \* each connection task's position
    cid,             \* each connection's client_id (0: none yet)
    creq,            \* the ClientMessage a connection task is handling
    cpend,           \* the message its send_message is about to send
    cmsgs,           \* ClientMessages read, all connections together
    unsubscribed     \* history: per client, the names whose Unsubscribed was sent
                     \* and that were not subscribed again

wsVars == <<wsClients, wsSent, next_id, clientsLock, engineLock, clientsPoisoned,
            enginePoisoned, bpc, btodo, nticks, cpc, cid, creq, cpend, cmsgs,
            unsubscribed>>

WsInit ==
    /\ wsClients = [i \in WsIds |-> NoClient]
    /\ wsSent = [i \in WsIds |-> <<>>]
    /\ next_id = 1
    /\ clientsLock = NoHolder
    /\ engineLock = NoHolder
    /\ clientsPoisoned = FALSE
    /\ enginePoisoned = FALSE
    /\ bpc = "idle"
    /\ btodo = {}
    /\ nticks = 0
    /\ cpc = [c \in Conns |-> "none"]
    /\ cid = [c \in Conns |-> 0]
    /\ creq = [c \in Conns |-> NoReq]
    /\ cpend = [c \in Conns |-> NoMsg]
    /\ cmsgs = 0
    /\ unsubscribed = [i \in WsIds |-> {}]

\* client.tx.send(msg) for the client with this id, if it is in the map
tx_send(log, clients, id, msgs) ==
    IF clients[id].present THEN [log EXCEPT ![id] = @ \o msgs] ELSE log

\* a connection task moves to pc; a panic ends the task where it is
Goto(c, pc) == cpc' = [cpc EXCEPT ![c] = pc]

\* handle_message returns (or unwinds): its locals are gone
Return(c, pc) ==
    /\ Goto(c, pc)
    /\ creq' = [creq EXCEPT ![c] = NoReq]
    /\ cpend' = [cpend EXCEPT ![c] = NoMsg]

\* ---------------------------------------------------------- broadcast_tick
\* `self.state.clients.lock().unwrap()`: the guard is held until the function
\* returns or unwinds
broadcast_lock ==
    /\ bpc = "idle"
    /\ nticks < MaxBroadcasts
    /\ clientsLock = NoHolder
    /\ nticks' = nticks + 1
    /\ IF clientsPoisoned
       THEN \* unwrap() panics: the call unwinds
            UNCHANGED <<bpc, clientsLock, btodo>>
       ELSE /\ bpc' = "iter"
            /\ clientsLock' = Broadcaster
            /\ btodo' = {<<i, n>> \in WsIds \X WsNames :
                            /\ wsClients[i].present
                            /\ wsClients[i].subscriptions[n] # NoQuery}
    /\ UNCHANGED <<wsClients, wsSent, next_id, engineLock, clientsPoisoned,
                   enginePoisoned, cpc, cid, creq, cpend, cmsgs, unsubscribed>>

\* one iteration of the inner loop: engine.lock(), query, unlock, collect,
\* send the header and the payload (or the error)
broadcast_item(id, name) ==
    LET result == engine_query(wsClients[id].subscriptions[name])
    IN /\ bpc = "iter"
       /\ <<id, name>> \in btodo
       /\ engineLock = NoHolder
       /\ btodo' = btodo \ {<<id, name>>}
       /\ IF enginePoisoned \/ (result.kind = "df" /\ ~CollectOk(result))
          THEN \* unwrap() panics with the clients guard alive
               /\ bpc' = "idle"
               /\ clientsLock' = NoHolder
               /\ clientsPoisoned' = TRUE
               /\ UNCHANGED wsSent
          ELSE /\ wsSent' =
                    tx_send(wsSent, wsClients, id,
                            IF result.kind = "df"
                            THEN <<ResultHeader(name, ipc_size(result)),
                                   Binary(name, ipc_size(result))>>
                            ELSE <<WsMsg("Error", name, 0)>>)
               /\ UNCHANGED <<bpc, clientsLock, clientsPoisoned>>
       /\ UNCHANGED <<wsClients, next_id, engineLock, enginePoisoned, nticks,
                      cpc, cid, creq, cpend, cmsgs, unsubscribed>>

\* both loops are done: Ok(()) and the guard is dropped
broadcast_return ==
    /\ bpc = "iter"
    /\ btodo = {}
    /\ bpc' = "idle"
    /\ clientsLock' = NoHolder
    /\ UNCHANGED <<wsClients, wsSent, next_id, engineLock, clientsPoisoned,
                   enginePoisoned, btodo, nticks, cpc, cid, creq, cpend, cmsgs,
                   unsubscribed>>

\* -------------------------------------------------------- handle_connection
\* accept_async, the channel, `state.next_id.fetch_add(1, SeqCst)`
accept(c) ==
    /\ cpc[c] = "none"
    /\ cid' = [cid EXCEPT ![c] = next_id]
    /\ next_id' = next_id + 1
    /\ Goto(c, "register")
    /\ UNCHANGED <<wsClients, wsSent, clientsLock, engineLock, clientsPoisoned,
                   enginePoisoned, bpc, btodo, nticks, creq, cpend, cmsgs, unsubscribed>>

\* `clients.insert(client_id, ClientState { subscriptions: HashMap::new(), tx })`
register_client(c) ==
    /\ cpc[c] = "register"
    /\ clientsLock = NoHolder
    /\ IF clientsPoisoned
       THEN Goto(c, "panicked") /\ UNCHANGED wsClients
       ELSE /\ wsClients' = [wsClients EXCEPT ![cid[c]] =
                                ClientState(TRUE, [n \in WsNames |-> NoQuery])]
            /\ Goto(c, "idle")
    /\ UNCHANGED <<wsSent, next_id, clientsLock, engineLock, clientsPoisoned,
                   enginePoisoned, bpc, btodo, nticks, cid, creq, cpend, cmsgs,
                   unsubscribed>>

\* `ws_rx.next().await` yields a ClientMessage
receive(c, req) ==
    /\ cpc[c] = "idle"
    /\ cmsgs < MaxWsMsgs
    /\ cmsgs' = cmsgs + 1
    /\ creq' = [creq EXCEPT ![c] = req]
    /\ Goto(c, req.m)
    /\ UNCHANGED <<wsClients, wsSent, next_id, clientsLock, engineLock,
                   clientsPoisoned, enginePoisoned, bpc, btodo, nticks, cid, cpend,
                   unsubscribed>>

\* `ws_rx.next().await` yields Close, an error or the end of the stream
receive_close(c) ==
    /\ cpc[c] = "idle"
    /\ Goto(c, "cleanup")
    /\ UNCHANGED <<wsClients, wsSent, next_id, clientsLock, engineLock,
                   clientsPoisoned, enginePoisoned, bpc, btodo, nticks, cid, creq,
                   cpend, cmsgs, unsubscribed>>

\* `clients.remove(&client_id)`, `forward_task.abort()`
cleanup(c) ==
    /\ cpc[c] = "cleanup"
    /\ clientsLock = NoHolder
    /\ IF clientsPoisoned
       THEN Goto(c, "panicked") /\ UNCHANGED wsClients
       ELSE /\ wsClients' = [wsClients EXCEPT ![cid[c]] = NoClient]
            /\ Goto(c, "closed")
    /\ UNCHANGED <<wsSent, next_id, clientsLock, engineLock, clientsPoisoned,
                   enginePoisoned, bpc, btodo, nticks, cid, creq, cpend, cmsgs,
                   unsubscribed>>

\* ----------------------------------------------------------- handle_message
\* the engine block of an arm that drops the guard before it sends: then
\* send_message(response), or the payload's header first
EngineBlock(c, panics, pend, pc) ==
    /\ engineLock = NoHolder
    /\ IF enginePoisoned \/ panics
       THEN Return(c, "panicked")
       ELSE Goto(c, pc) /\ cpend' = [cpend EXCEPT ![c] = pend] /\ UNCHANGED creq
    /\ UNCHANGED <<wsClients, wsSent, next_id, clientsLock, engineLock,
                   clientsPoisoned, enginePoisoned, bpc, btodo, nticks, cid,
                   cmsgs, unsubscribed>>

\* ListDfs: `eng.dataframe_names()` under the engine lock
list_dfs(c) ==
    /\ cpc[c] = "ListDfs"
    /\ EngineBlock(c, FALSE, WsMsg("Dfs", "", 0), "send")

\* Subscribe: validate under the engine lock. An Err is reported with
\* send_error while `eng` is still alive; anything else drops it.
subscribe_validate(c) ==
    /\ cpc[c] = "Subscribe"
    /\ engineLock = NoHolder
    /\ IF enginePoisoned
       THEN Return(c, "panicked") /\ UNCHANGED engineLock
       ELSE IF engine_query(creq[c].q).kind = "err"
       THEN /\ engineLock' = c
            /\ cpend' = [cpend EXCEPT ![c] = WsMsg("Error", "", 0)]
            /\ Goto(c, "invalid")
            /\ UNCHANGED creq
       ELSE Goto(c, "insert") /\ UNCHANGED <<engineLock, creq, cpend>>
    /\ UNCHANGED <<wsClients, wsSent, next_id, clientsLock, clientsPoisoned,
                   enginePoisoned, bpc, btodo, nticks, cid, cmsgs, unsubscribed>>

\* send_error(.."Invalid query"..) and `return`, the engine guard dropped last
subscribe_invalid(c) ==
    /\ cpc[c] = "invalid"
    /\ clientsLock = NoHolder
    /\ engineLock' = NoHolder
    /\ IF clientsPoisoned
       THEN /\ Return(c, "panicked")
            /\ enginePoisoned' = TRUE
            /\ UNCHANGED wsSent
       ELSE /\ Return(c, "idle")
            /\ wsSent' = tx_send(wsSent, wsClients, cid[c], <<cpend[c]>>)
            /\ UNCHANGED enginePoisoned
    /\ UNCHANGED <<wsClients, next_id, clientsLock, clientsPoisoned, bpc, btodo,
                   nticks, cid, cmsgs, unsubscribed>>

subscriptions_insert(subs, name, q) == [subs EXCEPT ![name] = q]

subscriptions_keep(subs, name) == subs

subscriptions_remove(subs, name) == [subs EXCEPT ![name] = NoQuery]

\* the clients block of Subscribe (insert) and of Unsubscribe (remove)
ClientsBlock(c, subs, pend) ==
    /\ clientsLock = NoHolder
    /\ IF clientsPoisoned
       THEN Return(c, "panicked") /\ UNCHANGED <<wsClients, unsubscribed>>
       ELSE /\ unsubscribed' =
                 IF pend.t = "Subscribed"
                 THEN [unsubscribed EXCEPT ![cid[c]] = @ \ {pend.name}]
                 ELSE unsubscribed
            /\ wsClients' =
                 IF wsClients[cid[c]].present
                 THEN [wsClients EXCEPT ![cid[c]].subscriptions = subs]
                 ELSE wsClients
            /\ cpend' = [cpend EXCEPT ![c] = pend]
            /\ Goto(c, "send")
            /\ UNCHANGED creq
    /\ UNCHANGED <<wsSent, next_id, clientsLock, engineLock, clientsPoisoned,
                   enginePoisoned, bpc, btodo, nticks, cid, cmsgs>>

subscribe_insert(c) ==
    /\ cpc[c] = "insert"
    /\ ClientsBlock(c, subscriptions_insert(wsClients[cid[c]].subscriptions,
                                            creq[c].name, creq[c].q),
                    WsMsg("Subscribed", creq[c].name, 0))

unsubscribe_remove(c) ==
    /\ cpc[c] = "Unsubscribe"
    /\ ClientsBlock(c, subscriptions_remove(wsClients[cid[c]].subscriptions,
                                            creq[c].name),
                    WsMsg("Unsubscribed", creq[c].name, 0))

\* Query: run under the engine lock, then `df.collect().unwrap()` with no
\* guard alive, then send_message(header)
query_run(c) ==
    LET result == engine_query(creq[c].q)
    IN /\ cpc[c] = "Query"
       /\ EngineBlock(c, result.kind = "df" /\ ~CollectOk(result),
                      IF result.kind = "df" THEN QueryResultHeader(ipc_size(result))
                      ELSE WsMsg("Error", "", 0),
                      IF result.kind = "df" THEN "send_header" ELSE "send")

\* send_message: lock the clients, send if the client is there, unlock
send_message(c) ==
    /\ cpc[c] \in {"send", "send_header"}
    /\ clientsLock = NoHolder
    /\ IF clientsPoisoned
       THEN Return(c, "panicked") /\ UNCHANGED <<wsSent, unsubscribed>>
       ELSE /\ wsSent' = tx_send(wsSent, wsClients, cid[c], <<cpend[c]>>)
            /\ unsubscribed' =
                 IF cpend[c].t = "Unsubscribed"
                 THEN [unsubscribed EXCEPT ![cid[c]] = @ \cup {cpend[c].name}]
                 ELSE unsubscribed
            /\ IF cpc[c] = "send"
               THEN Return(c, "idle")
               ELSE Goto(c, "binary") /\ UNCHANGED <<creq, cpend>>
    /\ UNCHANGED <<wsClients, next_id, clientsLock, engineLock, clientsPoisoned,
                   enginePoisoned, bpc, btodo, nticks, cid, cmsgs>>

\* Query: lock the clients again and send the payload
query_send_binary(c) ==
    /\ cpc[c] = "binary"
    /\ clientsLock = NoHolder
    /\ IF clientsPoisoned
       THEN Return(c, "panicked") /\ UNCHANGED wsSent
       ELSE /\ wsSent' = tx_send(wsSent, wsClients, cid[c],
                                 <<Binary("", cpend[c].size)>>)
            /\ Return(c, "idle")
    /\ UNCHANGED <<wsClients, next_id, clientsLock, engineLock, clientsPoisoned,
                   enginePoisoned, bpc, btodo, nticks, cid, cmsgs, unsubscribed>>

WsNext ==
    \/ broadcast_lock
    \/ \E id \in WsIds, name \in WsNames : broadcast_item(id, name)
    \/ broadcast_return
    \/ \E c \in Conns : accept(c)
    \/ \E c \in Conns : register_client(c)
    \/ \E c \in Conns, req \in WsRequests : receive(c, req)
    \/ \E c \in Conns : receive_close(c)
    \/ \E c \in Conns : cleanup(c)
    \/ \E c \in Conns : list_dfs(c)
    \/ \E c \in Conns : subscribe_validate(c)
    \/ \E c \in Conns : subscribe_invalid(c)
    \/ \E c \in Conns : subscribe_insert(c)
    \/ \E c \in Conns : unsubscribe_remove(c)
    \/ \E c \in Conns : query_run(c)
    \/ \E c \in Conns : send_message(c)
    \/ \E c \in Conns : query_send_binary(c)

\* ======================================================== specifications
vars == <<engineVars, stateVars, runVars, evalVars, synVars, wsVars, concVars>>

Init == EngineInit /\ StateInit /\ RunInit /\ EvalInit /\ SynInit
        /\ WsInit /\ ConcInit

\* the QueryEngine and the calls made on it
Next == EngineNext /\ UNCHANGED <<stateVars, runVars, evalVars, synVars, wsVars, concVars>>

Spec == Init /\ [][Next]_vars

\* the server's shared catalog, its writer and its readers
NextState == StateNext /\ UNCHANGED <<engineVars, runVars, evalVars, synVars, wsVars, concVars>>

SpecState == Init /\ [][NextState]_vars

\* the shared catalog's writer and one SSE subscription
NextSse == SseNext /\ UNCHANGED <<engineVars, runVars, evalVars, synVars, wsVars, concVars>>

SpecSse == Init /\ [][NextSse]_vars

\* the tokio runtime keeps polling the subscription's stream and runs the
\* writer's task to completion once it holds the lock
SpecSseFair ==
    /\ SpecSse
    /\ WF_vars(SseStep /\ UNCHANGED <<engineVars, runVars, evalVars, synVars, wsVars, concVars>>)
    /\ WF_vars(apply_update_write /\ UNCHANGED <<engineVars, runVars, evalVars, synVars, wsVars, concVars>>)
    /\ WF_vars(apply_update_notify /\ UNCHANGED <<engineVars, runVars, evalVars, synVars, wsVars, concVars>>)

\* the run registry and the catalog names it maintains
NextRuns == RunNext /\ UNCHANGED <<engineVars, stateVars, evalVars, synVars, wsVars, concVars>>

SpecRuns == Init /\ [][NextRuns]_vars

\* piql::run on contexts built with the EvalContext methods
NextEval == EvalNext /\ UNCHANGED <<engineVars, stateVars, runVars, synVars, wsVars, concVars>>

SpecEval == Init /\ [][NextEval]_vars

\* parse, pretty and transform called on surface trees
NextSyntax ==
    SynNext /\ UNCHANGED <<engineVars, stateVars, runVars, evalVars, wsVars, concVars>>

SpecSyntax == Init /\ [][NextSyntax]_vars

\* the WebSocket server: broadcast_tick and the connection tasks
NextWs ==
    WsNext /\ UNCHANGED <<engineVars, stateVars, runVars, evalVars, synVars, concVars>>

SpecWs == Init /\ [][NextWs]_vars

\* the run registry with its updates applied one at a time and a reader
NextRunsConc ==
    ConcNext /\ UNCHANGED <<engineVars, stateVars, evalVars, synVars, wsVars>>

SpecRunsConc == Init /\ [][NextRunsConc]_vars

\* ================================================================ claims
ViewName(i) == materialized[i].name

\* C1: on_tick recomputes the materialized views in the order they were
\* declared: while the loop over the views runs, the views recomputed so far
\* are exactly the first ones in declaration order and hold the value computed
\* in this tick, and every view not yet reached still holds the catalog entry
\* it had when on_tick was entered.
C1_MaterializedOrder ==
    tickpc = "views" =>
        /\ Len(recomputed) <= Len(materialized)
        /\ \A i \in 1..Len(materialized) :
             IF i <= Len(recomputed)
             THEN /\ recomputed[i] = ViewName(i)
                  /\ computed[ViewName(i)].some =>
                        /\ dataframes[ViewName(i)].present
                        /\ dataframes[ViewName(i)].df = computed[ViewName(i)].df
             ELSE dataframes[ViewName(i)] = preTick[ViewName(i)]

C1_Witness ==
    /\ tickpc = "views"
    /\ Len(materialized) = 2
    /\ Len(recomputed) = 1
    /\ computed[ViewName(1)].some
    /\ dataframes[ViewName(1)] # preTick[ViewName(1)]
    /\ dataframes[ViewName(2)].present

UsesRegisteredDirective(q) == HandlerCalls(q.ops, 1, sugar) > 0

\* C2: a registered directive handler is invoked exactly once for a
\* subscription that uses it, however many on_tick calls have evaluated the
\* subscription: whenever on_tick returns a result for such a subscription,
\* the handler has been invoked once in total on its behalf.
C2_CompiledOnce ==
    \A s \in SubNames :
        (/\ lastOp.op = "on_tick_ok"
         /\ s \in DOMAIN lastReturn.results
         /\ subEvals[s] >= 1
         /\ UsesRegisteredDirective(subscriptions[s])) => subExp[s] = 1

\* C3: no one-off query is evaluated against a catalog in which on_tick has
\* recomputed some of the materialized views and not yet the others.
C3_TickExclusive == ~lastQuery.half

C3_Witness ==
    /\ lastQuery.q # NoQuery
    /\ lastQuery.val.kind = "df"
    /\ tickpc = "views"
    /\ Len(recomputed) = 1
    /\ Len(materialized) = 2

\* the catalog after a mutation, as the interface defines Insert, Remove and
\* Reload
C4_After(cat, u) ==
    [n \in SNames |-> IF n # u.name THEN cat[n]
                      ELSE IF u.kind = "Remove" THEN SNoDf ELSE u.df]

RECURSIVE C4_PrefixState(_)
C4_PrefixState(k) ==
    IF k = 0 THEN [n \in SNames |-> SNoDf]
    ELSE C4_After(C4_PrefixState(k - 1), issued[k])

\* C4: with one writer, what a reader observes (the catalog a query runs
\* against, or the names a listing returns) is the catalog after some prefix
\* of the writer's mutations, never a half-stored entry.
C4_Linearizable ==
    \A r \in Readers :
        robs[r].kind # "none" =>
            /\ robs[r].torn = ""
            /\ \E k \in 0..Len(issued) :
                 robs[r].cat = IF robs[r].kind = "list"
                               THEN Keys(C4_PrefixState(k))
                               ELSE C4_PrefixState(k)

C4_Witness ==
    /\ Len(issued) = 2
    /\ \E r \in Readers :
         /\ robs[r].kind = "query"
         /\ robs[r].cat = C4_PrefixState(1)
         /\ robs[r].cat # C4_PrefixState(0)
         /\ robs[r].cat # C4_PrefixState(2)
    /\ \E r \in Readers : robs[r].kind = "list" /\ robs[r].cat # {}

RECURSIVE C6_Concat(_)
C6_Concat(bs) ==
    IF bs = <<>> THEN <<>> ELSE C6_Concat(SubSeq(bs, 1, Len(bs) - 1)) \o bs[Len(bs)].rows

IsSuffix(a, b) ==
    /\ Len(a) <= Len(b)
    /\ SubSeq(b, Len(b) - Len(a) + 1, Len(b)) = a

\* C6: after successful append_tick calls on a base table, `now` is the last
\* appended batch and `all` is every appended batch in order, so `now` is a
\* suffix of `all`.
C6_NowSuffixOfAll ==
    \A n \in BaseNames :
        (base_tables[n].present /\ batches[n] # <<>> /\ ~appendFailed[n]) =>
            /\ base_tables[n].now = SomeLF(batches[n][Len(batches[n])])
            /\ base_tables[n].all.some
            /\ base_tables[n].all.df.rows = C6_Concat(batches[n])
            /\ IsSuffix(base_tables[n].now.df.rows, base_tables[n].all.df.rows)
            /\ ctx_base_tables[n].now = base_tables[n].now
            /\ ctx_base_tables[n].all = base_tables[n].all

C6_Witness ==
    /\ Len(batches["e"]) = 2
    /\ batches["e"][1] # batches["e"][2]
    /\ ~appendFailed["e"]
    /\ Len(base_tables["e"].all.df.rows) = 2

\* C7: for every registered base table the catalog entry holds the same
\* content as the table's `all` snapshot.
C7_CatalogEqualsAll ==
    \A n \in BaseNames :
        (ctx_base_tables[n].present /\ ctx_base_tables[n].all.some) =>
            /\ dataframes[n].present
            /\ dataframes[n].df = ctx_base_tables[n].all.df

LastBatch(n) == batches[n][Len(batches[n])]

\* the rows of `n.at(tick)` that were inserted by the latest append_tick: the
\* filter keeps the row order, so they are the last rows of its result
C8_AtRestricted(n) ==
    LET at == run(QAt(n, tick), Ctx).df
        k == Len(AtFilter(LastBatch(n), tick).rows)
    IN Frame(at.cols, SubSeq(at.rows, Len(at.rows) - k + 1, Len(at.rows)))

C9_UpdateDfVisible ==
    (lastOp.op = "update_df" /\ ctx_base_tables[lastOp.name].now.some) =>
        /\ run(QBare(lastOp.name), Ctx).kind = "df"
        /\ run(QBare(lastOp.name), Ctx).df = lastOp.df

\* C10: every subscription result on_tick has computed was computed after all
\* the materialized views were recomputed for this tick, against the catalog
\* that holds their new values.
C10_SubsSeeFinalCatalog ==
    (tickpc # "idle" /\ results # NoResults) =>
        /\ Len(recomputed) = Len(materialized)
        /\ \A i \in 1..Len(materialized) :
             computed[ViewName(i)].some =>
                 dataframes[ViewName(i)].df = computed[ViewName(i)].df
        /\ \A s \in DOMAIN results : results[s] = run(subscriptions[s], Ctx).df

C10_Witness ==
    /\ tickpc = "subs"
    /\ Len(materialized) >= 1
    /\ "s1" \in DOMAIN results
    /\ subscriptions["s1"] = QBare("v1")
    /\ dataframes["v1"] # preTick["v1"]
    /\ results["s1"] = dataframes["v1"].df

\* the names subscribe() has registered and unsubscribe() has not removed
Registered == {s \in SubNames : subscriptions[s] # NoQuery}

\* C11: when on_tick succeeds, the mapping it returns has exactly one entry
\* for each registered subscription name: none is omitted, and no name that
\* was removed by unsubscribe appears.
C11_ExactlyRegistered ==
    lastOp.op = "on_tick_ok" => DOMAIN lastReturn.results = Registered

\* C12: when materialize(name, query) returns success, the value of the query
\* is stored in the catalog under name and (name, query) is in the ordered
\* view list; hence every registered view name has a catalog entry.
C12_MaterializeStores ==
    /\ lastOp.op = "materialize" =>
          /\ ViewIndex(materialized, lastOp.name) # 0
          /\ dataframes[lastOp.name].present
          /\ dataframes[lastOp.name].df =
                run(materialized[ViewIndex(materialized, lastOp.name)].query, Ctx).df
    /\ \A i \in 1..Len(materialized) : dataframes[ViewName(i)].present

\* the EvalContext held by SharedState: EvalContext::new() with the catalog
\* apply_update maintains; apply_update writes no other field of it
SharedContext ==
    [dataframes |-> sctx, tick |-> NoTick, default_tick_column |-> NoCol, sugar |-> {}]

\* C13 as stated: every catalog mutation increments a version counter of the
\* context, so the context after a committed mutation differs from the context
\* before it, and the mutation emits exactly one change notification.
C13_Original ==
    [][/\ Len(issued') > Len(issued) => SharedContext' # SharedContext
       /\ (wpc = "notify" /\ wpc' = "idle") => sent' = sent + 1]_vars

\* C13 amended: every catalog mutation (Insert, Remove or Reload) applied to
\* the shared context emits exactly one change notification: outside
\* apply_update the number of send calls equals the number of committed
\* mutations, and inside it the send for the mutation just committed is the
\* only one outstanding.
C13_OneNotification ==
    /\ wpc \in {"idle", "write"} => sent = Len(issued)
    /\ wpc = "notify" => Len(issued) = sent + 1

C13_Witness ==
    /\ wpc = "idle"
    /\ sent = 2
    /\ Len(issued) = 2
    /\ issued[1].kind = "Remove"
    /\ issued[2].kind = "Reload"

\* notifications sent to the subscription's receiver and not yet received
Pending == chanTail - sseNext

C15_EventuallyFresh ==
    /\ (ssePc # "none") ~> (sseEvents >= 1)
    /\ \A k \in 1..MaxWrites :
         (ssePc # "none" /\ sseSubAt < k /\ Len(issued) >= k) ~> (sseLast >= k)

C15_Witness ==
    /\ ssePc = "poll"
    /\ sseSubAt = 0
    /\ sseEvents >= 2
    /\ Len(issued) = 2
    /\ sseLast = 2

\* the run loaded most recently among those still registered, from the
\* history of successful loads; its tables are the frames as loaded
HasLatestRun == loadHist # <<>>
LatestLoaded == loadHist[Len(loadHist)]

\* C16: after any sequence of load_run and remove_run calls a bare table name
\* is in the catalog exactly when the most recently loaded run that is still
\* registered has that table, and it then holds that run's version of it.
C16_BareLatest ==
    \A t \in RunTables :
        IF HasLatestRun /\ LatestLoaded.tables[t] # RNoDf
        THEN rcat[BareName(t)] = LatestLoaded.tables[t]
        ELSE rcat[BareName(t)] = RNoDf

C16_Witness ==
    /\ lastRun.result = "removed"
    /\ Len(loadHist) = 1
    /\ \E t \in RunTables : rcat[BareName(t)] # RNoDf
    /\ \E t \in RunTables : rcat[BareName(t)] = RNoDf
    /\ rcat # [n \in CatNames |-> RNoDf]

\* the rows `_all::table` must hold: for every registered run that has the
\* table, in load order, the run's rows with the label set to the run's name
RECURSIVE C17_Rows(_, _)
C17_Rows(hist, table) ==
    IF hist = <<>> THEN <<>>
    ELSE C17_Rows(SubSeq(hist, 1, Len(hist) - 1), table)
         \o (IF hist[Len(hist)].tables[table] = RNoDf THEN <<>>
             ELSE [i \in 1..Len(hist[Len(hist)].tables[table].rows) |->
                      RRow(hist[Len(hist)].tables[table].rows[i].x,
                           hist[Len(hist)].name)])

\* C17: after any sequence of load_run and remove_run calls `_all::T` is in
\* the catalog exactly when some registered run has T, and its rows are the
\* concatenation, in load order, of every such run's T labelled with the
\* run's name.
C17_AllConcat ==
    \A t \in RunTables :
        IF \E i \in 1..Len(loadHist) : loadHist[i].tables[t] # RNoDf
        THEN /\ rcat[AllName(t)] # RNoDf
             /\ rcat[AllName(t)].rows = C17_Rows(loadHist, t)
        ELSE rcat[AllName(t)] = RNoDf

\* C18: `_all` is never a run name: a load_run call with that name registers
\* nothing and changes nothing, no registered run is named `_all`, and no
\* `_all::T` entry of the catalog is the table of a run of that name.
C18_ReservedName ==
    /\ \A i \in 1..Len(runs) : runs[i].name # "_all"
    /\ latest # "_all"
    /\ (lastRun.op = "load_run" /\ lastRun.run = "_all") => ~lastRun.changed
    /\ \A t \in RunTables :
          rcat[AllName(t)] # RNoDf =>
              /\ DEFAULT_RUN_LABEL_COLUMN \in rcat[AllName(t)].cols
              /\ \A i \in 1..Len(rcat[AllName(t)].rows) :
                    rcat[AllName(t)].rows[i].run # "_all"

C18_Witness ==
    /\ lastRun.op = "load_run"
    /\ lastRun.run = "_all"
    /\ lastRun.clean # {}
    /\ Len(runs) >= 1
    /\ \E t \in RunTables : rcat[AllName(t)] # RNoDf

\* C19 as stated: with the default options, every load_run of a run in which
\* any table has the label column fails with RunLabelColumnConflict and
\* leaves registry and catalog as they were.
C19_Original ==
    (/\ lastRun.op = "load_run"
     /\ ~options_drop
     /\ lastRun.conflict # {})
    => /\ lastRun.result = "RunLabelColumnConflict"
       /\ ~lastRun.changed

\* C19: with the default options, a load_run whose run name is neither the
\* reserved `_all` nor already registered, and in which any table has the
\* label column, fails with RunLabelColumnConflict and registers nothing:
\* registry and catalog are as they were before the call, also when other
\* tables of the run have no conflict.
C19_ConflictRegistersNothing ==
    (/\ lastRun.op = "load_run"
     /\ ~options_drop
     /\ lastRun.conflict # {}
     /\ lastRun.result \notin {"skipped_reserved", "skipped_loaded"})
    => /\ lastRun.result = "RunLabelColumnConflict"
       /\ ~lastRun.changed
       /\ \A t \in RunTables : rcat[SpecificName(lastRun.run, t)] = RNoDf

C19_Witness ==
    /\ lastRun.op = "load_run"
    /\ ~options_drop
    /\ lastRun.result = "RunLabelColumnConflict"
    /\ lastRun.conflict # {}
    /\ lastRun.clean # {}
    /\ Len(runs) >= 1

\* the last run() call was `X.join(Y, on="tick").at(n)` / `X.at(n).join(Y,
\* on="tick")` and X and Y were both time-series tables
JoinThenAt ==
    /\ Len(evCall.q.ops) = 2
    /\ evCall.q.ops[1].m = "join"
    /\ evCall.q.ops[2].m = "at"
    /\ evCall.ts

AtThenJoin ==
    /\ Len(evCall.q.ops) = 2
    /\ evCall.q.ops[1].m = "at"
    /\ evCall.q.ops[2].m = "join"
    /\ evCall.ts

\* C20: for time-series tables X and Y, `(X.join(Y, ...)).at(n)` fails with
\* the ambiguous-lineage error of the scope method, whatever tick columns are
\* configured, while `X.at(n).join(Y, ...)` evaluates to a table.
C20_ScopeLineageGuard ==
    /\ JoinThenAt => evCall.kind = "err" /\ evCall.err = "ambiguous lineage"
    /\ AtThenJoin => evCall.kind = "df"

C20_Witness ==
    /\ JoinThenAt
    /\ evCall.q.root # evCall.q.ops[1].pred
    /\ evCall.err = "ambiguous lineage"
    /\ evCtx.default_tick_column = TickCol
    /\ {evCall.q.root, evCall.q.ops[1].pred}
           \subseteq {n \in EvalNames : TimeSeriesTable(evCtx, n)}
    /\ run(QAtJoin(evCall.q.root, evCall.q.ops[1].pred, evCall.q.ops[2].n),
           evCtx).kind = "df"

\* the last run() call applied a scope method to a join result, or to a table
\* derived from one by further table methods
ScopeAfterJoin ==
    /\ Len(evCall.q.ops) >= 2
    /\ evCall.q.ops[Len(evCall.q.ops)].m \in ScopeMethods
    /\ \E i \in 1..(Len(evCall.q.ops) - 1) : evCall.q.ops[i].m = "join"
    /\ evCall.recv \in {"Table", "DerivedFrom", "Ambiguous", "Unknown"}

\* C21 as stated: each of at, since, window and all applied to a join result
\* or to a table derived from one is refused with the ambiguous-lineage
\* diagnostic.
C21_Original ==
    ScopeAfterJoin => evCall.kind = "err" /\ evCall.err = "ambiguous lineage"

\* C21: a table derived from a join result has lineage Ambiguous and keeps
\* it; at and since on it are refused with the ambiguous-lineage diagnostic,
\* window too when the context has a tick (without one it is refused for the
\* missing tick), and all is not refused: it returns the table, lineage
\* still Ambiguous.
C21_AmbiguousSticks ==
    ScopeAfterJoin =>
        /\ evCall.recv = "Ambiguous"
        /\ evCall.q.ops[Len(evCall.q.ops)].m \in {"at", "since"}
              => evCall.kind = "err" /\ evCall.err = "ambiguous lineage"
        /\ evCall.q.ops[Len(evCall.q.ops)].m = "window"
              => /\ evCall.kind = "err"
                 /\ evCall.err \in {"ambiguous lineage", "requires tick in context"}
                 /\ evCall.err = "requires tick in context" <=> evCall.tick = NoTick
        /\ evCall.q.ops[Len(evCall.q.ops)].m = "all"
              => evCall.kind = "df" /\ evCall.lineage = "Ambiguous"

C21_Witness ==
    /\ ScopeAfterJoin
    /\ Len(evCall.q.ops) = 3
    /\ evCall.q.ops[3].m = "since"
    /\ evCall.err = "ambiguous lineage"
    /\ evCtx.default_tick_column = TickCol
    /\ evCall.tick # NoTick

\* C26: a failed on_tick is atomic: when on_tick returns an error the catalog
\* and the context tick are what they were when the call was entered.
C26_FailedTickAtomic ==
    [][(tickpc # "idle" /\ lastOp'.op = "on_tick_err")
          => (dataframes' = preTick /\ tick' = preTickNo)]_vars

\* C27: a failed append_tick loses no history: when append_tick returns an
\* error for a registered base table, the table's `all` and `now` (in the
\* engine and in the context) and its catalog entry are what they were before
\* the call.
C27_FailedAppendKeepsHistory ==
    [][(nops' # nops /\ lastOp'.op = "append_tick_err")
          => /\ base_tables' = base_tables
             /\ ctx_base_tables' = ctx_base_tables
             /\ dataframes' = dataframes]_vars

\* a call whose `otherwise` ends a when/then chain and has no positional argument
MalformedOtherwise(expr) ==
    /\ expr.k = "Call"
    /\ callee_of(expr).k = "Attr"
    /\ callee_of(expr).name = "otherwise"
    /\ try_extract_when_chain(callee_of(expr).kids[1])[1].k # "None"
    /\ first_positional(args_of(expr)).k = "None"

\* C25: transform is total: every call returns a core tree and none aborts;
\* an unknown directive and an `otherwise` without an argument at the end of
\* a when/then chain each become an Invalid node.
C25_TransformTotal ==
    synCall.op \in {"transform", "root_transform"}
       => /\ synCall.out.k # "Panic"
          /\ MalformedOtherwise(synCall.expr) => synCall.out.k = "Invalid"
          /\ (/\ synCall.expr.k = "Directive"
              /\ synCall.expr.name \notin synCall.registry.directives)
                => synCall.out.k = "Invalid"

\* C24: parse after pretty is the identity: for every tree the parser
\* produced and every width, the printed text parses, and to the same tree.
C24_ParsePrettyRoundTrip ==
    synCall.op = "pretty"
       => /\ synCall.text # PanicText
          /\ synCall.reparsed.ok
          /\ synCall.reparsed.e = synCall.expr

\* ------------------------------------------------------ WebSocket delivery
IsHeader(msg) == msg.t \in {"ResultHeader", "QueryResultHeader"}

\* C22: in what was sent to a client, every result header that is not the last
\* message is followed at once by the binary payload it announces (same
\* subscription, same size), whatever the interleaving of broadcast_tick with
\* the client's own Query handling.
C22_HeaderThenPayload ==
    \A id \in WsIds : \A i \in 1..Len(wsSent[id]) :
        IsHeader(wsSent[id][i]) /\ i < Len(wsSent[id])
           => wsSent[id][i + 1] = Binary(wsSent[id][i].name, wsSent[id][i].size)

\* C23: once a client's Unsubscribe for a name was processed and Unsubscribed
\* was sent, and until the client subscribes to the name again, no iteration
\* of broadcast_tick for that client and name sends the client anything.
C23_UnsubscribedIsSilent ==
    [][\A id \in WsIds, name \in WsNames :
          /\ bpc = "iter"
          /\ <<id, name>> \in btodo \ btodo'
          /\ name \in unsubscribed[id]
          => wsSent'[id] = wsSent[id]]_vars

\* a client that got a result for n, then Unsubscribed as its last message,
\* and a later broadcast_tick that has gone through its loops
C23_Witness ==
    \E id \in WsIds :
        /\ "n" \in unsubscribed[id]
        /\ nticks > 1 /\ bpc = "iter" /\ btodo = {}
        /\ \E i \in 1..Len(wsSent[id]) : wsSent[id][i].t = "ResultHeader"
        /\ wsSent[id][Len(wsSent[id])] = WsMsg("Unsubscribed", "n", 0)

\* C28: the two mutexes are never in a cycle: broadcast_tick holding the
\* clients mutex with an iteration left, which needs the engine mutex, while a
\* connection task holds the engine mutex and needs the clients mutex to go on.
C28_NoLockCycle ==
    ~ \E c \in Conns :
        /\ clientsLock = Broadcaster /\ bpc = "iter" /\ btodo # {}
        /\ engineLock = c /\ cpc[c] = "invalid"

\* the connection's task is over: it returned after the client's disconnect,
\* or it unwound, and then nothing reads the client's socket or sees it close
TaskOver(c) == cpc[c] \in {"closed", "panicked"}

\* C30: clients are isolated. A broadcast_tick iteration sends a client
\* results only for a name the client is subscribed to; a step of one
\* connection's task neither sends to another client nor changes another
\* client's entry; once a connection's task is over its entry is gone from
\* the map and broadcast_tick evaluates nothing for it.
C30_ClientIsolation ==
    [][/\ \A id \in WsIds, name \in WsNames :
             /\ bpc = "iter"
             /\ <<id, name>> \in btodo \ btodo'
             /\ wsSent'[id] # wsSent[id]
             => wsClients[id].subscriptions[name] # NoQuery
       /\ \A c \in Conns : \A id \in WsIds \ {cid'[c]} :
             cpc'[c] # cpc[c]
             => wsSent'[id] = wsSent[id] /\ wsClients'[id] = wsClients[id]
       /\ \A c \in Conns :
             TaskOver(c)'
             => /\ ~wsClients'[cid'[c]].present
                /\ \A name \in WsNames : <<cid[c], name>> \notin btodo \ btodo'
      ]_vars

\* --------------------------------------------------- run tiers for readers
\* the rows `_all::table` holds for a run
AllRowsOf(cat, run_name, table) ==
    SelectSeq(cat[AllName(table)].rows, LAMBDA row : row.run = run_name)

\* the three name tiers of a catalog agree: `_all::T` holds the rows of
\* `R::T` for exactly the runs R that have `R::T`, and a bare `T` shows the
\* table of one of them
TiersAgree(cat) ==
    \A t \in RunTables :
        /\ \A r \in RunNames :
              AllRowsOf(cat, r, t) =
                 (IF cat[SpecificName(r, t)] # RNoDf /\ r # "_all"
                  THEN with_run_label(cat[SpecificName(r, t)], r).rows ELSE <<>>)
        /\ \A i \in 1..Len(cat[AllName(t)].rows) :
              cat[AllName(t)].rows[i].run \in RunNames
        /\ cat[BareName(t)] # RNoDf
              => \E r \in RunNames \ {"_all"} :
                    cat[SpecificName(r, t)] = cat[BareName(t)]

\* C29: a query that clones the catalog while load_run or remove_run is in
\* progress sees name tiers that agree.
C29_AtomicForReaders ==
    snapshot.taken /\ snapshot.during => TiersAgree(snapshot.cat)
====
